---- MODULE Spec2Model ----
(***************************************************************************)
(* Earnings ledger (EmployeeContract.sol), the accrual helper              *)
(* (creditEmployeeWork.js) and the employee routes of the payroll server   *)
(* (routes/employee.js), the product catalog (ProductContract.sol) and the *)
(* purchase handler (controllers/product.controller.js), as a state        *)
(* machine.                                                                *)
(*                                                                         *)
(* Values are counted in units of 10^10 wei (10 gwei), so that the         *)
(* program's constants stay exact and fit TLC's integers:                  *)
(*   0.1 ETH = 10^17 wei = 10^7 units,  gas price 1 = 10 gwei per gas.     *)
(* block.timestamp is left out of the log entries (no operation reads it). *)
(* The strings of an employee record other than userCode are left out.     *)
(***************************************************************************)
EXTENDS Integers, Sequences, FiniteSets, TLC

VARIABLES
    owner,           \* EmployeeContract.owner
    employeeCount,   \* EmployeeContract.employeeCount
    employees,       \* EmployeeContract.employees : userCode -> [wallet, active]
    employeeCodes,   \* EmployeeContract.employeeCodes
    totalCredited,   \* EmployeeContract.totalCredited
    totalWithdrawn,  \* EmployeeContract.totalWithdrawn
    logs,            \* EmployeeContract.logs : userCode -> Seq([action, amount])
    lastCall,        \* the last transaction an account sent to the contract itself
    balance,         \* spendable balance of each employee wallet on the chain
    nonce,           \* transactions mined from each employee wallet
    accounts0,       \* the server's account, (await web3.eth.getAccounts())[0]
    wd,              \* the POST /employee/withdraw request in flight
    srv,             \* outcome of the last one-shot server operation
    productOwner,    \* ProductContract.owner
    productCount,    \* ProductContract.productCount
    products,        \* ProductContract.products : productCode -> [price, exists]
    productCodes,    \* ProductContract.productCodes
    ownerReceived,   \* value the ProductContract has transferred to its owner
    buy,             \* the buyProducts request in flight
    users,           \* rows of the users table: [id, username, wallet_address]
    reg,             \* the POST /employee request in flight
    accessLogs,      \* rows of the access_logs table, in insertion order
    clock,           \* the server's time in seconds, new Date()
    scans,           \* the POST /access-log requests received, in order of arrival
    dbQueue,         \* queries the database connection has yet to run
    wds              \* POST /employee/withdraw requests in flight together, by slot

contractVars == <<owner, employeeCount, employees, employeeCodes,
                  totalCredited, totalWithdrawn, logs>>
productVars == <<productOwner, productCount, products, productCodes>>
purchaseVars == <<productVars, ownerReceived, buy>>
registrationVars == <<users, reg>>
attendanceVars == <<accessLogs, clock, scans, dbQueue>>
siteVars == <<registrationVars, attendanceVars, wds>>
vars == <<owner, employeeCount, employees, employeeCodes, totalCredited,
          totalWithdrawn, logs, lastCall, balance, nonce, accounts0, wd, srv,
          productOwner, productCount, products, productCodes, ownerReceived, buy,
          users, reg, accessLogs, clock, scans, dbQueue, wds>>

(***************************************************************************)
(* Bounds of the model.                                                    *)
(***************************************************************************)
MaxLog == 2              \* log entries over all employees
MaxNonce == 2            \* transfers mined from the employee wallets
MaxWalletMinutes == 3    \* minutes of pay the wallets may hold before accruals stop
MaxScans == 3            \* POST /access-log requests received
MaxTicks == 2            \* minutes the server's clock advances

(***************************************************************************)
(* Addresses, user codes, keys.                                            *)
(***************************************************************************)
ZeroAddress == "0x00"
Deployer == "0xAA"       \* the account that deployed the contract
Stranger == "0xBB"       \* any other account
Wallets == {"0xC1", "0xC2"}
Callers == {Deployer, Stranger}
UserCodes == {"1", "2"}
Slots == {1, 2}

\* String.prototype.toLowerCase on the addresses of the model
toLowerCase(a) ==
    CASE a = "0xAA" -> "0xaa"
      [] a = "0xBB" -> "0xbb"
      [] a = "0xC1" -> "0xc1"
      [] a = "0xC2" -> "0xc2"
      [] OTHER -> a

(***************************************************************************)
(* EmployeeContract: every function is an operator from the storage and    *)
(* the call to [ok, reason, st]; a revert leaves the storage as it was.    *)
(***************************************************************************)
Storage ==
    [owner |-> owner, employeeCount |-> employeeCount, employees |-> employees,
     employeeCodes |-> employeeCodes, totalCredited |-> totalCredited,
     totalWithdrawn |-> totalWithdrawn, logs |-> logs]

Commit(s) ==
    /\ owner' = s.owner
    /\ employeeCount' = s.employeeCount
    /\ employees' = s.employees
    /\ employeeCodes' = s.employeeCodes
    /\ totalCredited' = s.totalCredited
    /\ totalWithdrawn' = s.totalWithdrawn
    /\ logs' = s.logs

Revert(s, reason) == [ok |-> FALSE, reason |-> reason, st |-> s]
Return(s) == [ok |-> TRUE, reason |-> "", st |-> s]

\* constructor(): owner = msg.sender, employeeCount = 0, everything else zero
constructor(sender) ==
    [owner |-> sender, employeeCount |-> 0,
     employees |-> [u \in UserCodes |-> [wallet |-> ZeroAddress, active |-> FALSE]],
     employeeCodes |-> <<>>,
     totalCredited |-> [u \in UserCodes |-> 0],
     totalWithdrawn |-> [u \in UserCodes |-> 0],
     logs |-> [u \in UserCodes |-> <<>>]]

amountPerMinute == 10000000     \* 100000000000000000 wei

onlyOwnerAnyone(s, sender) == TRUE

onlyOwner(s, sender) == sender = s.owner

registerEmployee(s, sender, userCode, wallet) ==
    IF ~onlyOwner(s, sender) THEN Revert(s, "Not authorized")
    ELSE IF s.employees[userCode].wallet # ZeroAddress
         THEN Revert(s, "Employee already exists")
    ELSE IF wallet = ZeroAddress THEN Revert(s, "Invalid wallet address")
    ELSE Return([s EXCEPT !.employees[userCode] = [wallet |-> wallet, active |-> TRUE],
                          !.employeeCodes = Append(@, userCode),
                          !.employeeCount = @ + 1])

creditForWorkRoundUp(s, sender, userCode, checkin, checkout) ==
    IF ~onlyOwner(s, sender) THEN Revert(s, "Not authorized")
    ELSE IF s.employees[userCode].wallet = ZeroAddress
         THEN Revert(s, "Employee not found")
    ELSE IF ~(checkout >= checkin) THEN Revert(s, "Invalid time range")
    ELSE LET minutesWorked == (checkout - checkin + 59) \div 60
             amount == minutesWorked * amountPerMinute
         IN  IF minutesWorked = 0 THEN Return(s)
             ELSE Return([s EXCEPT !.totalCredited[userCode] = @ + amount,
                                   !.logs[userCode] =
                                       Append(@, [action |-> 0, amount |-> amount])])

creditForWork(s, sender, userCode, checkin, checkout) ==
    IF ~onlyOwner(s, sender) THEN Revert(s, "Not authorized")
    ELSE IF s.employees[userCode].wallet = ZeroAddress
         THEN Revert(s, "Employee not found")
    ELSE IF ~(checkout >= checkin) THEN Revert(s, "Invalid time range")
    ELSE LET secondsWorked == checkout - checkin
             minutesWorked == secondsWorked \div 60
             amount == minutesWorked * amountPerMinute
         IN  IF minutesWorked = 0 THEN Return(s)
             ELSE Return([s EXCEPT !.totalCredited[userCode] = @ + amount,
                                   !.logs[userCode] =
                                       Append(@, [action |-> 0, amount |-> amount])])

recordWithdrawOnce(s, sender, userCode, amount) ==
    IF ~onlyOwner(s, sender) THEN Revert(s, "Not authorized")
    ELSE IF s.employees[userCode].wallet = ZeroAddress
         THEN Revert(s, "Employee not found")
    ELSE IF \E i \in 1..Len(s.logs[userCode]) :
                s.logs[userCode][i] = [action |-> 1, amount |-> amount]
         THEN Return(s)
    ELSE Return([s EXCEPT !.totalWithdrawn[userCode] = @ + amount,
                          !.logs[userCode] =
                              Append(@, [action |-> 1, amount |-> amount])])

recordWithdrawLatestOnly(s, sender, userCode, amount) ==
    IF ~onlyOwner(s, sender) THEN Revert(s, "Not authorized")
    ELSE IF s.employees[userCode].wallet = ZeroAddress
         THEN Revert(s, "Employee not found")
    ELSE Return([s EXCEPT !.totalWithdrawn[userCode] = amount,
                          !.logs[userCode] =
                              Append(@, [action |-> 1, amount |-> amount])])

recordWithdraw(s, sender, userCode, amount) ==
    IF ~onlyOwner(s, sender) THEN Revert(s, "Not authorized")
    ELSE IF s.employees[userCode].wallet = ZeroAddress
         THEN Revert(s, "Employee not found")
    ELSE Return([s EXCEPT !.totalWithdrawn[userCode] = @ + amount,
                          !.logs[userCode] =
                              Append(@, [action |-> 1, amount |-> amount])])

recordPurchaseAsDebit(s, sender, userCode, totalAmount) ==
    IF ~onlyOwner(s, sender) THEN Revert(s, "Not authorized")
    ELSE IF s.employees[userCode].wallet = ZeroAddress
         THEN Revert(s, "Employee not found")
    ELSE Return([s EXCEPT !.totalWithdrawn[userCode] = @ + totalAmount,
                          !.logs[userCode] =
                              Append(@, [action |-> 2, amount |-> totalAmount])])

recordPurchase(s, sender, userCode, totalAmount) ==
    IF ~onlyOwner(s, sender) THEN Revert(s, "Not authorized")
    ELSE IF s.employees[userCode].wallet = ZeroAddress
         THEN Revert(s, "Employee not found")
    ELSE Return([s EXCEPT !.logs[userCode] =
                              Append(@, [action |-> 2, amount |-> totalAmount])])

updateEmployeeStatus(s, sender, userCode, isActive) ==
    IF ~onlyOwner(s, sender) THEN Revert(s, "Not authorized")
    ELSE IF s.employees[userCode].wallet = ZeroAddress
         THEN Revert(s, "Employee not found")
    ELSE Return([s EXCEPT !.employees[userCode].active = isActive])

\* view functions: [ok, reason, value]
\* Solidity 0.8 checks the subtraction: it panics when withdrawn > credited.
getEmployeeBookBalance(s, userCode) ==
    IF s.employees[userCode].wallet = ZeroAddress
    THEN [ok |-> FALSE, reason |-> "Employee not found", value |-> 0]
    ELSE IF s.totalWithdrawn[userCode] > s.totalCredited[userCode]
         THEN [ok |-> FALSE, reason |-> "Panic(0x11)", value |-> 0]
    ELSE [ok |-> TRUE, reason |-> "",
          value |-> s.totalCredited[userCode] - s.totalWithdrawn[userCode]]

getLogCount(s, userCode) ==
    IF s.employees[userCode].wallet = ZeroAddress
    THEN [ok |-> FALSE, reason |-> "Employee not found", value |-> 0]
    ELSE [ok |-> TRUE, reason |-> "", value |-> Len(s.logs[userCode])]

getLogByIndexNewestFirst(s, userCode, index) ==
    IF s.employees[userCode].wallet = ZeroAddress
    THEN [ok |-> FALSE, reason |-> "Employee not found", action |-> 0, amount |-> 0]
    ELSE IF ~(index < Len(s.logs[userCode]))
         THEN [ok |-> FALSE, reason |-> "Index out of bounds", action |-> 0, amount |-> 0]
    ELSE [ok |-> TRUE, reason |-> "",
          action |-> s.logs[userCode][Len(s.logs[userCode]) - index].action,
          amount |-> s.logs[userCode][Len(s.logs[userCode]) - index].amount]

\* index counts from 0, as in the contract
getLogByIndex(s, userCode, index) ==
    IF s.employees[userCode].wallet = ZeroAddress
    THEN [ok |-> FALSE, reason |-> "Employee not found", action |-> 0, amount |-> 0]
    ELSE IF ~(index < Len(s.logs[userCode]))
         THEN [ok |-> FALSE, reason |-> "Index out of bounds", action |-> 0, amount |-> 0]
    ELSE [ok |-> TRUE, reason |-> "",
          action |-> s.logs[userCode][index + 1].action,
          amount |-> s.logs[userCode][index + 1].amount]

getEmployee(s, userCode) ==
    IF s.employees[userCode].wallet = ZeroAddress
    THEN [ok |-> FALSE, reason |-> "Employee not found",
          userCode |-> "", wallet |-> ZeroAddress, active |-> FALSE]
    ELSE [ok |-> TRUE, reason |-> "", userCode |-> userCode,
          wallet |-> s.employees[userCode].wallet,
          active |-> s.employees[userCode].active]

(***************************************************************************)
(* ProductContract: as above, operators from the storage and the call to   *)
(* [ok, reason, st]. A product is kept by its price and its exists flag    *)
(* (name and image hash are left out).                                     *)
(***************************************************************************)
ProductCodes == {"A", "B"}

ProductStorage ==
    [owner |-> productOwner, productCount |-> productCount,
     products |-> products, productCodes |-> productCodes]

CommitProduct(s) ==
    /\ productOwner' = s.owner
    /\ productCount' = s.productCount
    /\ products' = s.products
    /\ productCodes' = s.productCodes

DeployedProduct(s) ==
    /\ productOwner = s.owner
    /\ productCount = s.productCount
    /\ products = s.products
    /\ productCodes = s.productCodes

\* constructor(): owner = msg.sender, productCount = 0
constructorProduct(sender) ==
    [owner |-> sender, productCount |-> 0,
     products |-> [c \in ProductCodes |-> [price |-> 0, exists |-> FALSE]],
     productCodes |-> <<>>]

addProduct(s, sender, productCode, price) ==
    IF ~onlyOwner(s, sender) THEN Revert(s, "Not authorized")
    ELSE IF s.products[productCode].exists THEN Revert(s, "Product already exists")
    ELSE Return([s EXCEPT !.products[productCode] = [price |-> price, exists |-> TRUE],
                          !.productCodes = Append(@, productCode),
                          !.productCount = @ + 1])

updateProduct(s, sender, productCode, price) ==
    IF ~onlyOwner(s, sender) THEN Revert(s, "Not authorized")
    ELSE IF ~s.products[productCode].exists THEN Revert(s, "Product not found")
    ELSE Return([s EXCEPT !.products[productCode].price = price])

deleteProduct(s, sender, productCode) ==
    IF ~onlyOwner(s, sender) THEN Revert(s, "Not authorized")
    ELSE IF ~s.products[productCode].exists THEN Revert(s, "Product not found")
    ELSE Return([s EXCEPT !.products[productCode].exists = FALSE])

\* view: [ok, reason, productCode, price]
getProduct(s, productCode) ==
    IF ~s.products[productCode].exists
    THEN [ok |-> FALSE, reason |-> "Product not found", productCode |-> "", price |-> 0]
    ELSE [ok |-> TRUE, reason |-> "", productCode |-> productCode,
          price |-> s.products[productCode].price]

\* view: the structs of the entries of productCodes whose product exists, in
\* the order of productCodes
RECURSIVE getAllProductsFrom(_, _)
getAllProductsFrom(s, i) ==
    IF i > Len(s.productCodes) THEN <<>>
    ELSE LET code == s.productCodes[i]
         IN  (IF s.products[code].exists
              THEN <<[productCode |-> code, price |-> s.products[code].price]>>
              ELSE <<>>)
             \o getAllProductsFrom(s, i + 1)

getAllProducts(s) == getAllProductsFrom(s, 1)

\* the loop of buyProducts over items i..n: the first failing require, or the
\* total price
RECURSIVE totalPriceFrom(_, _, _, _)
totalPriceFrom(s, codes, quantities, i) ==
    IF i > Len(codes) THEN [ok |-> TRUE, reason |-> "", totalPrice |-> 0]
    ELSE IF ~s.products[codes[i]].exists
         THEN [ok |-> FALSE, reason |-> "Product not found", totalPrice |-> 0]
    ELSE IF ~(quantities[i] > 0)
         THEN [ok |-> FALSE, reason |-> "Quantity must be greater than zero",
               totalPrice |-> 0]
    ELSE LET rest == totalPriceFrom(s, codes, quantities, i + 1)
             itemPrice == s.products[codes[i]].price * quantities[i]
         IN  IF ~rest.ok THEN rest
             ELSE [ok |-> TRUE, reason |-> "", totalPrice |-> itemPrice + rest.totalPrice]

buyProductsAnyValue(s, value, codes, quantities) ==
    LET t == totalPriceFrom(s, codes, quantities, 1)
        Rejected(reason) == [ok |-> FALSE, reason |-> reason, st |-> s, toOwner |-> 0]
    IN  IF Len(codes) # Len(quantities)
        THEN Rejected("Code and quantity arrays must match")
        ELSE IF ~(Len(codes) > 0) THEN Rejected("Must buy at least one product")
        ELSE IF ~t.ok THEN Rejected(t.reason)
        ELSE [ok |-> TRUE, reason |-> "", st |-> s, toOwner |-> value]

\* buyProducts(productCodes, quantities) payable: [ok, reason, st, toOwner];
\* toOwner is the value the call transfers to the owner
buyProducts(s, value, codes, quantities) ==
    LET t == totalPriceFrom(s, codes, quantities, 1)
        Rejected(reason) == [ok |-> FALSE, reason |-> reason, st |-> s, toOwner |-> 0]
    IN  IF Len(codes) # Len(quantities)
        THEN Rejected("Code and quantity arrays must match")
        ELSE IF ~(Len(codes) > 0) THEN Rejected("Must buy at least one product")
        ELSE IF ~t.ok THEN Rejected(t.reason)
        ELSE IF value # t.totalPrice THEN Rejected("Incorrect total payment amount")
        ELSE [ok |-> TRUE, reason |-> "", st |-> s, toOwner |-> value]

(***************************************************************************)
(* Helpers over the log.                                                   *)
(***************************************************************************)
RECURSIVE SumOf(_, _)
SumOf(log, action) ==
    IF log = <<>> THEN 0
    ELSE (IF Head(log).action = action THEN Head(log).amount ELSE 0)
         + SumOf(Tail(log), action)

Min(S) == CHOOSE x \in S : \A y \in S : x <= y

RECURSIVE LogTotal(_)
LogTotal(S) ==
    IF S = {} THEN 0
    ELSE LET u == CHOOSE x \in S : TRUE
         IN  Len(logs[u]) + LogTotal(S \ {u})

LogRoom == LogTotal(UserCodes) < MaxLog

RECURSIVE NonceTotal(_)
NonceTotal(S) ==
    IF S = {} THEN 0
    ELSE LET w == CHOOSE x \in S : TRUE
         IN  nonce[w] + NonceTotal(S \ {w})

RECURSIVE BalanceTotal(_)
BalanceTotal(S) ==
    IF S = {} THEN 0
    ELSE LET w == CHOOSE x \in S : TRUE
         IN  balance[w] + BalanceTotal(S \ {w})

(***************************************************************************)
(* Inputs.                                                                 *)
(***************************************************************************)
Checkins == {1000}
Checkouts == {990, 1000, 1059, 1060, 1185}
WeiAmounts == {10000000, 20000000}       \* 0.1 ETH, 0.2 ETH

NoCall == [op |-> "none", sender |-> ZeroAddress, userCode |-> "",
           amount |-> 0, ok |-> FALSE, reason |-> ""]
Called(op, sender, userCode, amount, r) ==
    [op |-> op, sender |-> sender, userCode |-> userCode, amount |-> amount,
     ok |-> r.ok, reason |-> r.reason]

NoWithdraw ==
    [pc |-> "idle", userCode |-> "", privateKey |-> "", amount |-> 0,
     from |-> ZeroAddress, wallet |-> ZeroAddress, amountWei |-> 0,
     txCount |-> 0, gasPrice |-> 0, ops |-> {},
     res |-> [status |-> 0, error |-> "", transferTx |-> FALSE, recordTx |-> FALSE]]
NoOutcome == [op |-> "none", status |-> 0, error |-> "", sent |-> FALSE]
NoPurchase ==
    [pc |-> "idle", userCode |-> "", buyerPrivateKey |-> "", products |-> <<>>,
     normalizedProducts |-> <<>>, totalPriceWei |-> 0, from |-> ZeroAddress,
     gasEstimate |-> 0, ops |-> {},
     res |-> [status |-> 0, message |-> "", totalPriceWei |-> 0]]

NoRegistration ==
    [pc |-> "idle", role_id |-> 0, username |-> "", userId |-> 0,
     wallet |-> ZeroAddress, ops |-> {}, res |-> [status |-> 0, error |-> ""]]
NoScan ==
    [pc |-> "idle", code |-> "", access_type |-> 0, now |-> 0, userId |-> 0,
     cardId |-> 0, responses |-> <<>>, credit |-> "none", entryId |-> 0, checkin |-> 0]

\* no registration under way, no scan received, no slot for withdrawals in
\* flight together, empty tables
SiteIdle ==
    /\ users = <<>>
    /\ reg = NoRegistration
    /\ accessLogs = <<>>
    /\ clock = 0
    /\ scans = <<>>
    /\ dbQueue = <<>>
    /\ wds = <<>>

serverVars == <<balance, nonce, accounts0, wd, srv>>

(***************************************************************************)
(* Transactions sent to the contract by an account.                        *)
(***************************************************************************)
TxRegisterEmployee ==
    \E sender \in Callers, userCode \in UserCodes, wallet \in Wallets \cup {ZeroAddress} :
        LET r == registerEmployee(Storage, sender, userCode, wallet)
        IN  /\ Commit(r.st)
            /\ lastCall' = Called("registerEmployee", sender, userCode, 0, r)
            /\ UNCHANGED <<serverVars, purchaseVars, siteVars>>

TxCreditForWork ==
    \E sender \in Callers, userCode \in UserCodes,
       checkin \in Checkins, checkout \in Checkouts :
        LET r == creditForWork(Storage, sender, userCode, checkin, checkout)
        IN  /\ LogRoom
            /\ Commit(r.st)
            /\ lastCall' = Called("creditForWork", sender, userCode, 0, r)
            /\ UNCHANGED <<serverVars, purchaseVars, siteVars>>

TxRecordWithdraw ==
    \E sender \in Callers, userCode \in UserCodes, amount \in WeiAmounts :
        LET r == recordWithdraw(Storage, sender, userCode, amount)
        IN  /\ LogRoom
            /\ Commit(r.st)
            /\ lastCall' = Called("recordWithdraw", sender, userCode, amount, r)
            /\ UNCHANGED <<serverVars, purchaseVars, siteVars>>

TxRecordPurchase ==
    \E sender \in Callers, userCode \in UserCodes, amount \in WeiAmounts :
        LET r == recordPurchase(Storage, sender, userCode, amount)
        IN  /\ LogRoom
            /\ Commit(r.st)
            /\ lastCall' = Called("recordPurchase", sender, userCode, amount, r)
            /\ UNCHANGED <<serverVars, purchaseVars, siteVars>>

TxUpdateEmployeeStatus ==
    \E sender \in Callers, userCode \in UserCodes, isActive \in BOOLEAN :
        LET r == updateEmployeeStatus(Storage, sender, userCode, isActive)
        IN  /\ Commit(r.st)
            /\ lastCall' = Called("updateEmployeeStatus", sender, userCode, 0, r)
            /\ UNCHANGED <<serverVars, purchaseVars, siteVars>>

(***************************************************************************)
(* The ledger alone: the contract as deployed, called by any account.      *)
(***************************************************************************)
Deployed(s) ==
    /\ owner = s.owner
    /\ employeeCount = s.employeeCount
    /\ employees = s.employees
    /\ employeeCodes = s.employeeCodes
    /\ totalCredited = s.totalCredited
    /\ totalWithdrawn = s.totalWithdrawn
    /\ logs = s.logs
    /\ lastCall = NoCall

Init ==
    /\ Deployed(constructor(Deployer))
    /\ balance = [w \in Wallets |-> 0]
    /\ nonce = [w \in Wallets |-> 0]
    /\ accounts0 = Deployer
    /\ wd = NoWithdraw
    /\ srv = NoOutcome
    /\ DeployedProduct(constructorProduct(Deployer))
    /\ ownerReceived = 0
    /\ buy = NoPurchase
    /\ SiteIdle

Next ==
    \/ TxRegisterEmployee
    \/ TxCreditForWork
    \/ TxRecordWithdraw
    \/ TxRecordPurchase
    \/ TxUpdateEmployeeStatus

Spec == Init /\ [][Next]_vars
(***************************************************************************)
(* The server: POST /employee/withdraw, one step per network round trip;   *)
(* the accrual helper and PUT /employee/:userCode/status as single steps.  *)
(* A network call whose failure the handler distinguishes may fail         *)
(* (netOk = FALSE); the read-only calls are taken to answer.               *)
(***************************************************************************)
gasLimit == 21000
UnitsPerTenthEth == 10000000     \* 0.1 ETH in units of 10^10 wei
GasPrices == {1, 2}              \* web3.eth.getGasPrice(): 10 or 20 gwei
EthTenths == {0, 1, 2}           \* the request's amount: 0, 0.1 or 0.2 ETH
KeyInputs == {"0xk1", "k2", "zz"}
RoleIds == {1, 3}

\* if (!pk.startsWith("0x")) pk = "0x" + pk
with0x(pk) ==
    CASE pk = "k2" -> "0xk2"
      [] pk = "zz" -> "0xzz"
      [] OTHER -> pk

\* web3.eth.accounts.privateKeyToAccount(pk): throws on a malformed key
privateKeyToAccount(pk) ==
    CASE pk = "0xk1" -> [ok |-> TRUE, address |-> "0xC1"]
      [] pk = "0xk2" -> [ok |-> TRUE, address |-> "0xC2"]
      [] OTHER -> [ok |-> FALSE, address |-> ZeroAddress]

\* web3.utils.toWei(String(amount), "ether") of an amount given in tenths of ETH
toWei(tenths) == tenths * UnitsPerTenthEth

Response(status, error, transferTx, recordTx) ==
    [status |-> status, error |-> error, transferTx |-> transferTx, recordTx |-> recordTx]

FailRetryingSend(w, status, error) ==
    IF w.pc = "send" THEN w
    ELSE [w EXCEPT !.pc = "done", !.res = Response(status, error, FALSE, FALSE)]

\* return res.status(status).json({ error, ... }): no transaction id in the body
Fail(w, status, error) ==
    [w EXCEPT !.pc = "done", !.res = Response(status, error, FALSE, FALSE)]

walletMismatchNever(wallet, from) == FALSE

walletMismatch(wallet, from) == toLowerCase(wallet) # toLowerCase(from)

insufficientIgnoringGas(balanceWei, amountWei, gasPrice) == balanceWei < amountWei

insufficient(balanceWei, amountWei, gasPrice) ==
    balanceWei < amountWei + gasLimit * gasPrice

ownerMismatchNever(contractOwner, serverOwner) == FALSE

ownerMismatch(contractOwner, serverOwner) ==
    toLowerCase(contractOwner) # toLowerCase(serverOwner)

transferCostNoGas(amountWei, gasPrice) == amountWei

\* what a mined transfer of amountWei takes from the sender: value plus 21000 gas
transferCost(amountWei, gasPrice) == amountWei + gasLimit * gasPrice

WdStart ==
    /\ wd.pc \in {"idle", "done"}
    /\ NonceTotal(Wallets) < MaxNonce
    /\ \E userCode \in UserCodes \cup {""}, privateKey \in KeyInputs, amount \in EthTenths :
        LET w == [NoWithdraw EXCEPT !.userCode = userCode, !.privateKey = privateKey,
                                    !.amount = amount]
            pk == with0x(privateKey)
            acct == privateKeyToAccount(pk)
        IN  wd' = IF userCode = "" \/ privateKey = "" \/ amount = 0
                  THEN Fail(w, 400, "userCode, privateKey, amount required")
                  ELSE IF ~acct.ok
                       THEN Fail(w, 500, "Invalid private key")
                  ELSE [w EXCEPT !.pc = "getEmployee", !.privateKey = pk,
                                 !.from = acct.address]
    /\ UNCHANGED <<contractVars, lastCall, purchaseVars, siteVars, balance, nonce, accounts0, srv>>

WdGetEmployee ==
    /\ wd.pc = "getEmployee"
    /\ LET emp == getEmployee(Storage, wd.userCode)
       IN  wd' = IF ~emp.ok
                 THEN Fail(wd, 500, "execution reverted: Employee not found")
                 ELSE IF emp.userCode = ""
                      THEN Fail(wd, 404, "Employee not found")
                 ELSE IF walletMismatch(emp.wallet, wd.from)
                      THEN Fail(wd, 400, "privateKey does not match employee wallet")
                 ELSE [wd EXCEPT !.pc = "funds", !.wallet = emp.wallet,
                                 !.amountWei = toWei(wd.amount)]
    /\ UNCHANGED <<contractVars, lastCall, purchaseVars, siteVars, balance, nonce, accounts0, srv>>

WdCheckFunds ==
    /\ wd.pc = "funds"
    /\ \E gasPrice \in GasPrices :
        LET balanceWei == balance[wd.from]
            w == [wd EXCEPT !.txCount = nonce[wd.from], !.gasPrice = gasPrice]
        IN  wd' = IF insufficient(balanceWei, wd.amountWei, gasPrice)
                  THEN Fail(w, 400, "Insufficient funds to cover amount + gas")
                  ELSE [w EXCEPT !.pc = "sign"]
    /\ UNCHANGED <<contractVars, lastCall, purchaseVars, siteVars, balance, nonce, accounts0, srv>>

WdSign ==
    /\ wd.pc = "sign"
    /\ \E signOk \in BOOLEAN :
        LET w == [wd EXCEPT !.ops = @ \cup {"sign"}]
        IN  wd' = IF signOk THEN [w EXCEPT !.pc = "send"]
                  ELSE Fail(w, 500, "signTransaction failed")
    /\ UNCHANGED <<contractVars, lastCall, purchaseVars, siteVars, balance, nonce, accounts0, srv>>

\* the chain mines the transfer when its nonce is the sender's next one and the
\* sender can pay value plus gas
WdSend ==
    /\ wd.pc = "send"
    /\ \E netOk \in BOOLEAN :
        LET w == [wd EXCEPT !.ops = @ \cup {"send"}]
            cost == transferCost(wd.amountWei, wd.gasPrice)
        IN  IF netOk /\ wd.txCount = nonce[wd.from] /\ balance[wd.from] >= cost
            THEN /\ balance' = [balance EXCEPT ![wd.from] = @ - cost]
                 /\ nonce' = [nonce EXCEPT ![wd.from] = @ + 1]
                 /\ wd' = [w EXCEPT !.pc = "owner", !.ops = @ \cup {"transferred"}]
            ELSE /\ UNCHANGED <<balance, nonce>>
                 /\ wd' = Fail(w, 500, "sendSignedTransaction failed")
    /\ UNCHANGED <<contractVars, lastCall, purchaseVars, siteVars, accounts0, srv>>

WdOwnerCheck ==
    /\ wd.pc = "owner"
    /\ LET contractOwner == owner
       IN  wd' = IF ownerMismatch(contractOwner, accounts0)
                 THEN Fail(wd, 400, "Contract owner mismatch")
                 ELSE [wd EXCEPT !.pc = "estimate"]
    /\ UNCHANGED <<contractVars, lastCall, purchaseVars, siteVars, balance, nonce, accounts0, srv>>

WdEstimate ==
    /\ wd.pc = "estimate"
    /\ \E netOk \in BOOLEAN :
        LET r == recordWithdraw(Storage, accounts0, wd.userCode, wd.amountWei)
            w == [wd EXCEPT !.ops = @ \cup {"estimateGas"}]
        IN  wd' = IF netOk /\ r.ok THEN [w EXCEPT !.pc = "record"]
                  ELSE Fail(w, 500, "recordWithdraw estimateGas failed")
    /\ UNCHANGED <<contractVars, lastCall, purchaseVars, siteVars, balance, nonce, accounts0, srv>>

WdRecord ==
    /\ wd.pc = "record"
    /\ LogRoom
    /\ \E netOk \in BOOLEAN :
        LET r == recordWithdraw(Storage, accounts0, wd.userCode, wd.amountWei)
            w == [wd EXCEPT !.ops = @ \cup {"recordSend"}]
        IN  /\ IF netOk
               THEN /\ Commit(r.st)
                    /\ wd' = IF r.ok
                             THEN [w EXCEPT !.pc = "done",
                                            !.res = Response(200, "", TRUE, TRUE)]
                             ELSE Fail(w, 500, "recordWithdraw transaction failed")
               ELSE /\ UNCHANGED contractVars
                    /\ wd' = Fail(w, 500, "recordWithdraw transaction failed")
    /\ UNCHANGED <<lastCall, purchaseVars, siteVars, balance, nonce, accounts0, srv>>

(***************************************************************************)
(* amountEth = (0.1 * minutes).toString(); amountWei = toWei(amountEth):    *)
(* the product is an IEEE-754 double, the string its shortest decimal that *)
(* reads back as the same double, and toWei converts the string exactly.   *)
(* The double nearest to 0.1 is (2^56 + 4) / (10 * 2^56), so in units of   *)
(* u = 2^-56 / 10 the exact product is minutes * 2^56 + 4 * minutes; it is *)
(* rounded to a multiple of the ulp of its binade, ties to even.           *)
(***************************************************************************)
TenthShift == 56
TenthExcess == 4
LimbBase == 10000

RECURSIVE Pow2(_)
Pow2(n) == IF n = 0 THEN 1 ELSE 2 * Pow2(n - 1)

RECURSIVE Pow10(_)
Pow10(n) == IF n = 0 THEN 1 ELSE 10 * Pow10(n - 1)

RECURSIVE Pow2Mod(_, _)
Pow2Mod(n, q) == IF n = 0 THEN 1 % q ELSE (2 * Pow2Mod(n - 1, q)) % q

\* E with 2^(E-4) <= minutes / 10 < 2^(E-3); the ulp there is 10 * 2^E u
Binade(minutes) ==
    CHOOSE E \in 0..minutes :
        10 * Pow2(E) <= 16 * minutes /\ 16 * minutes < 20 * Pow2(E)

\* ulps above the double just below, for a value `offset` above that double
\* whose mantissa is odd iff floorOdd
RoundHalfEven(offset, ulp, floorOdd) ==
    LET q == offset \div ulp
        rem == offset % ulp
        odd == (floorOdd /\ q % 2 = 0) \/ (~floorOdd /\ q % 2 = 1)
    IN  q + (IF 2 * rem > ulp THEN 1
             ELSE IF 2 * rem < ulp THEN 0
             ELSE IF odd THEN 1 ELSE 0)

\* 0.1 * minutes: the double minutes / 10 + delta * 2^E u, an ulp being 10 * 2^E u
tenthTimes(minutes) ==
    LET E == Binade(minutes)
        ulp == 10 * Pow2(E)
        t20 == (minutes * Pow2Mod(TenthShift - E, 20)) % 20
        offsetT == Pow2(E) * (t20 % 10)
        offsetP == offsetT + TenthExcess * minutes
        k == RoundHalfEven(offsetP, ulp, t20 >= 10)
    IN  [E |-> E, delta |-> 10 * k - (t20 % 10)]

\* long division of a number given by its base-10000 digits, leading digit first
RECURSIVE DivSmall(_, _, _)
DivSmall(big, s, carry) ==
    IF big = <<>> THEN <<>>
    ELSE LET cur == carry * LimbBase + Head(big)
         IN  <<cur \div s>> \o DivSmall(Tail(big), s, cur % s)

RECURSIVE DivPow2(_, _)
DivPow2(big, n) ==
    IF n = 0 THEN big
    ELSE IF n >= 13 THEN DivPow2(DivSmall(big, Pow2(13), 0), n - 13)
    ELSE DivSmall(big, Pow2(n), 0)

RECURSIVE ToInt(_, _)
ToInt(big, acc) ==
    IF big = <<>> THEN acc ELSE ToInt(Tail(big), acc * LimbBase + Head(big))

\* floor of a * 2^E u in wei: a * 10^17 / 2^(56 - E)
weiFloor(a, E) == ToInt(DivPow2(<<a * 10, 0, 0, 0, 0>>, TenthShift - E), 0)

\* Number.prototype.toString: among the decimals strictly inside the double's
\* rounding interval (lo, hi) the one with the fewest digits, nearest to the
\* double (mid2 is the floor of twice its value); in wei above minutes * 10^17
shortestInside(lo, hi, mid2) ==
    LET J == {j \in 0..8 : ((lo + Pow10(j)) \div Pow10(j)) * Pow10(j) <= hi}
        j == CHOOSE jj \in J : \A o \in J : o <= jj
        p == Pow10(j)
        c == (mid2 \div 2) \div p
    IN  IF (2 * c + 1) * p > mid2 THEN c * p ELSE (c + 1) * p

\* the wei by which toWei((0.1 * minutes).toString()) exceeds minutes * 10^17:
\* none when the product is the double nearest to minutes / 10
creditResidueWei(minutes) ==
    LET d == tenthTimes(minutes)
    IN  IF d.delta < 5 THEN 0
        ELSE shortestInside(weiFloor(d.delta - 5, d.E), weiFloor(d.delta + 5, d.E),
                            weiFloor(2 * d.delta, d.E))

\* the same for the minutes the accruals of the model can have, computed once
AccrualMinutes ==
    {m \in {(checkout - checkin) \div 60 : checkin \in Checkins, checkout \in Checkouts} :
        m >= 1}
    \cup (1..MaxTicks)
residueWeiOf == [m \in AccrualMinutes |-> creditResidueWei(m)]

\* amountWei in whole units of 10^10 wei; residueWeiOf[minutes] is what is
\* left below a unit. Every amount a balance is compared with or reduced by
\* is a whole number of units, so the balances are kept in whole units.
creditAmountWei(minutes) == minutes * UnitsPerTenthEth

\* sent: the operation sent its ledger-mutating call to the network
Outcome(op, status, error, sent) ==
    [op |-> op, status |-> status, error |-> error, sent |-> sent]

\* creditEmployeeWork(userCode, checkin, checkout) run by the server whose
\* account is serverAccount, on the contract storage s: status 200 stands for
\* a returned result and 500 for a thrown error; sent tells whether the
\* creditForWork transaction was sent, amountWei is the value transferred to
\* the wallet `to` before it (0 when nothing is transferred) in units with
\* residueWei wei on top, st the storage afterwards.
creditEmployeeWork(s, serverAccount, userCode, checkin, checkout) ==
    LET emp == getEmployee(s, userCode)
        seconds == checkout - checkin
        minutes == seconds \div 60
        amountWei == creditAmountWei(minutes)
        r == creditForWork(s, serverAccount, userCode, checkin, checkout)
        Thrown(error) == [status |-> 500, error |-> error, sent |-> FALSE,
                          minutes |-> 0, amountWei |-> 0, residueWei |-> 0,
                          to |-> ZeroAddress, st |-> s]
    IN  IF ~emp.ok \/ emp.userCode = "" THEN Thrown("Employee not found")
        ELSE IF seconds <= 0 THEN Thrown("Invalid time range")
        ELSE IF minutes <= 0
        THEN [status |-> 200, error |-> "Less than 1 minute, nothing to credit",
              sent |-> FALSE, minutes |-> 0, amountWei |-> 0, residueWei |-> 0,
              to |-> ZeroAddress, st |-> s]
        ELSE [status |-> IF r.ok THEN 200 ELSE 500,
              error |-> IF r.ok THEN "Credited" ELSE r.reason,
              sent |-> TRUE, minutes |-> minutes, amountWei |-> amountWei,
              residueWei |-> residueWeiOf[minutes],
              to |-> emp.wallet, st |-> r.st]

CreditEmployeeWork ==
    \E userCode \in UserCodes, checkin \in Checkins, checkout \in Checkouts :
        LET c == creditEmployeeWork(Storage, accounts0, userCode, checkin, checkout)
        IN  /\ c.sent => /\ LogRoom
                         /\ BalanceTotal(Wallets) + c.amountWei
                               <= MaxWalletMinutes * amountPerMinute
            /\ balance' = IF c.sent
                          THEN [balance EXCEPT ![c.to] = @ + c.amountWei]
                          ELSE balance
            /\ Commit(c.st)
            /\ srv' = Outcome("creditEmployeeWork", c.status, c.error, c.sent)
            /\ UNCHANGED <<lastCall, purchaseVars, siteVars, nonce, accounts0, wd>>

\* PUT /employee/:userCode/status
UpdateStatus ==
    \E role_id \in RoleIds, userCode \in UserCodes, active \in BOOLEAN :
        LET r == updateEmployeeStatus(Storage, accounts0, userCode, active)
        IN  IF role_id = 3
            THEN /\ srv' = Outcome("updateStatus", 403, "Access denied for this role", FALSE)
                 /\ UNCHANGED <<contractVars, lastCall, purchaseVars, siteVars, balance, nonce, accounts0, wd>>
            ELSE /\ Commit(r.st)
                 /\ srv' = IF r.ok THEN Outcome("updateStatus", 200, "", TRUE)
                           ELSE Outcome("updateStatus", 500, r.reason, TRUE)
                 /\ UNCHANGED <<lastCall, purchaseVars, siteVars, balance, nonce, accounts0, wd>>

(***************************************************************************)
(* GET /employee/:userCode/logs works on JavaScript Numbers. A double near *)
(* a whole number n of tenths of an ETH is kept as [n, off]: its value is  *)
(* (n * 2^56 + off) u with u = 2^-56 / 10, as in tenthTimes.               *)
(***************************************************************************)
Double(n, off) == [n |-> n, off |-> off]

\* the double nearest to (n * 2^56 + off) u for n >= 1, ties to even
RoundPos(n, off) ==
    LET E0 == Binade(n)
        E == IF off < 0 /\ 16 * n = 10 * Pow2(E0) THEN E0 - 1 ELSE E0
        ulp == 10 * Pow2(E)
        t20 == (n * Pow2Mod(TenthShift - E, 20)) % 20
        offsetT == Pow2(E) * (t20 % 10)
        k == RoundHalfEven(offsetT + off, ulp, t20 >= 10)
    IN  Double(n, k * ulp - offsetT)

\* a difference of nearby doubles (n = 0) is a double itself
RoundToDouble(n, off) ==
    IF n = 0 THEN Double(0, off)
    ELSE IF n < 0 THEN LET r == RoundPos(-n, -off) IN Double(-r.n, -r.off)
    ELSE RoundPos(n, off)

\* a + b and a - b on Numbers
plus(a, b) == RoundToDouble(a.n + b.n, a.off + b.off)
minus(a, b) == RoundToDouble(a.n - b.n, a.off - b.off)

\* Number(web3.utils.fromWei(amount, "ether")): the decimal string of the
\* amount read as a double; every amount of the model is a whole number of
\* tenths of an ETH
NumberFromWei(amountWei) == RoundToDouble(amountWei \div UnitsPerTenthEth, 0)

\* logs.forEach(log => { if (log.action is one of actions) total += log.amountEth })
RECURSIVE SumEth(_, _, _)
SumEth(total, entries, actions) ==
    IF entries = <<>> THEN total
    ELSE SumEth(IF Head(entries).action \in actions
                THEN plus(total, Head(entries).amountEth) ELSE total,
                Tail(entries), actions)

\* the response of GET /employee/:userCode/logs on the contract storage s;
\* Number(x.toString()) is x: the string is the one that reads back as x
employeeLogs(s, userCode) ==
    LET emp == getEmployee(s, userCode)
        count == getLogCount(s, userCode).value
        entries == [i \in 1..count |->
                      LET l == getLogByIndex(s, userCode, i - 1)
                      IN  [action |-> l.action, amountEth |-> NumberFromWei(l.amount)]]
        totalCredit == SumEth(Double(0, 0), entries, {0})
        totalDebit == SumEth(Double(0, 0), entries, {1, 2})
    IN  IF ~emp.ok \/ emp.userCode = ""
        THEN [status |-> 404, logs |-> <<>>, bookBalance |-> Double(0, 0), logCount |-> 0]
        ELSE [status |-> 200, logs |-> entries,
              bookBalance |-> minus(totalCredit, totalDebit), logCount |-> count]

\* The contract as deployed and employee "1" registered by the owner with wallet
\* 0xC1; employee "2" registered with wallet 0xC2 or not registered; the
\* server's account is the owner's or another one.
InitServer ==
    /\ \E both \in BOOLEAN :
        LET one == registerEmployee(constructor(Deployer), Deployer, "1", "0xC1").st
        IN  Deployed(IF both THEN registerEmployee(one, Deployer, "2", "0xC2").st
                     ELSE one)
    /\ balance = [w \in Wallets |-> 0]
    /\ nonce = [w \in Wallets |-> 0]
    /\ accounts0 \in Callers
    /\ wd = NoWithdraw
    /\ srv = NoOutcome
    /\ DeployedProduct(constructorProduct(Deployer))
    /\ ownerReceived = 0
    /\ buy = NoPurchase
    /\ SiteIdle

NextServer ==
    \/ WdStart
    \/ WdGetEmployee
    \/ WdCheckFunds
    \/ WdSign
    \/ WdSend
    \/ WdOwnerCheck
    \/ WdEstimate
    \/ WdRecord
    \/ CreditEmployeeWork
    \/ UpdateStatus

SpecServer == InitServer /\ [][NextServer]_vars

(***************************************************************************)
(* The product controller: buyProducts, one step per network round trip    *)
(* (the getProduct call of each line item, estimateGas, the broadcast, the *)
(* recordPurchase bookkeeping), and addProduct, updateProduct and          *)
(* deleteProduct as single steps that may fall between them.               *)
(***************************************************************************)
MaxPurchases == 1        \* purchase transactions mined
MaxProductCodes == 3     \* length of ProductContract.productCodes

Prices == {50000000, 100000000}          \* 0.5 ETH, 1.0 ETH
BuyUserCodes == {"1", " 2", ""}
\* the line items of a request carry a price of the client's, which the
\* handler never reads
BuyRequests ==
    {<<>>,
     <<[productCode |-> "A", quantity |-> 2, priceWei |-> 1]>>,
     <<[productCode |-> "A", quantity |-> 2, priceWei |-> 1],
       [productCode |-> " B", quantity |-> 3, priceWei |-> 1]>>,
     <<[productCode |-> "A", quantity |-> 2, priceWei |-> 1],
       [productCode |-> " B", quantity |-> 0, priceWei |-> 1]>>}
BuyerFunds == 400000000                  \* 4 ETH in wallet 0xC1
GasEstimates == {60000}

\* String(value).trim()
trim(str) ==
    CASE str = " 2" -> "2"
      [] str = " B" -> "B"
      [] OTHER -> str

\* validateRequired(value, fieldName).valid
validateRequired(value) == ~(value = "" \/ trim(value) = "")

\* verifyContractOwner(contract, adminAddress).isOwner; a failed read of
\* owner() counts as "is owner"
verifyContractOwner(contractOwner, adminAddress, readOk) ==
    IF ~readOk THEN TRUE
    ELSE ~(contractOwner # "" /\ toLowerCase(contractOwner) # toLowerCase(adminAddress))

\* Math.floor(Number(gasEstimate) * 1.2) + 10000; the double product of a gas
\* amount and 1.2 has the integer part of the exact product
buyGasLimit(gasEstimate) == (gasEstimate * 12) \div 10 + 10000

resolvePriceFromClient(prod, prodData) == prod.priceWei

\* const priceWei = BigInt(prodData[2])
resolvePrice(prod, prodData) == prodData.price

BuyResponse(status, message, totalPriceWei) ==
    [status |-> status, message |-> message, totalPriceWei |-> totalPriceWei]

recordPurchaseUncaught(outcome, totalPriceWei) ==
    IF outcome = "recordFailed" THEN BuyResponse(500, "Internal error", 0)
    ELSE BuyResponse(200, "Product(s) purchased successfully", totalPriceWei)

\* the response after the bookkeeping block: its errors are caught and logged
recordPurchaseCaught(outcome, totalPriceWei) ==
    BuyResponse(200, "Product(s) purchased successfully", totalPriceWei)

BuyFail(b, status, message) ==
    [b EXCEPT !.pc = "done", !.res = BuyResponse(status, message, 0)]

buyOthers == <<contractVars, lastCall, accounts0, wd, srv, siteVars>>

\* the request arrives: validation of userCode, buyerPrivateKey and products
BuyStart ==
    \E userCode \in BuyUserCodes, buyerPrivateKey \in KeyInputs, items \in BuyRequests :
        LET b == [NoPurchase EXCEPT !.userCode = userCode,
                                    !.buyerPrivateKey = buyerPrivateKey,
                                    !.products = items]
        IN  /\ buy.pc \in {"idle", "done"}
            /\ LogRoom
            /\ NonceTotal(Wallets) < MaxPurchases
            /\ buy' = IF ~validateRequired(userCode)
                      THEN BuyFail(b, 400, "userCode is required")
                      ELSE IF ~validateRequired(buyerPrivateKey)
                      THEN BuyFail(b, 400, "buyerPrivateKey is required")
                      ELSE IF Len(items) = 0
                      THEN BuyFail(b, 400, "products array is required and must not be empty")
                      ELSE [b EXCEPT !.pc = "lookup"]
            /\ UNCHANGED <<buyOthers, productVars, ownerReceived, balance, nonce>>

\* one turn of the loop over the line items: validation of the item and the
\* getProduct call that resolves its price
BuyLookup ==
    /\ buy.pc = "lookup"
    /\ LET i == Len(buy.normalizedProducts) + 1
           prod == buy.products[i]
           qty == prod.quantity
           normalizedCode == trim(prod.productCode)
           prodData == getProduct(ProductStorage, normalizedCode)
           priceWei == resolvePrice(prod, prodData)
           itemTotalWei == priceWei * qty
           found == [buy EXCEPT
                       !.totalPriceWei = @ + itemTotalWei,
                       !.normalizedProducts =
                           Append(@, [productCode |-> normalizedCode, quantity |-> qty,
                                      priceWei |-> priceWei,
                                      itemTotalWei |-> itemTotalWei]),
                       !.ops = @ \cup {"getProduct"}]
       IN  buy' = IF ~validateRequired(prod.productCode)
                  THEN BuyFail(buy, 400, "productCode is required for each product")
                  ELSE IF qty <= 0
                  THEN BuyFail(buy, 400, "quantity must be a positive integer for each product")
                  ELSE IF ~prodData.ok \/ prodData.productCode = ""
                  THEN BuyFail([buy EXCEPT !.ops = @ \cup {"getProduct"}],
                               404, "Product not found")
                  ELSE IF i = Len(buy.products) THEN [found EXCEPT !.pc = "estimate"]
                  ELSE found
    /\ UNCHANGED <<buyOthers, productVars, ownerReceived, balance, nonce>>

\* the buyer's account from the key, then web3.eth.estimateGas: it throws when
\* the node cannot be reached, when the call would revert and when the
\* sender cannot pay the value
BuyEstimate ==
    /\ buy.pc = "estimate"
    /\ \E netOk \in BOOLEAN, gasEstimate \in GasEstimates :
        LET account == privateKeyToAccount(with0x(trim(buy.buyerPrivateKey)))
            from == account.address
            codes == [i \in 1..Len(buy.normalizedProducts) |->
                        buy.normalizedProducts[i].productCode]
            quantities == [i \in 1..Len(buy.normalizedProducts) |->
                        buy.normalizedProducts[i].quantity]
            call == buyProducts(ProductStorage, buy.totalPriceWei, codes, quantities)
        IN  buy' = IF ~account.ok
                   THEN BuyFail(buy, 400, "Invalid private key format")
                   ELSE IF ~netOk \/ ~call.ok \/ balance[from] < buy.totalPriceWei
                   THEN BuyFail([buy EXCEPT !.from = from, !.ops = @ \cup {"estimateGas"}],
                                500, "Internal error")
                   ELSE [buy EXCEPT !.pc = "send", !.from = from,
                                    !.gasEstimate = gasEstimate,
                                    !.ops = @ \cup {"estimateGas"}]
    /\ UNCHANGED <<buyOthers, productVars, ownerReceived, balance, nonce>>

\* getGasPrice, signTransaction and sendSignedTransaction. A transaction the
\* sender cannot pay for (value + gas limit x gas price) is not mined; a mined
\* one runs ProductContract.buyProducts with the catalog as it is then and
\* costs the sender the gas (taken to be the estimate) whether it reverts or
\* not; a revert makes sendSignedTransaction throw.
BuySend ==
    /\ buy.pc = "send"
    /\ \E gasPrice \in GasPrices, signOk \in BOOLEAN, netOk \in BOOLEAN :
        LET from == buy.from
            value == buy.totalPriceWei
            codes == [i \in 1..Len(buy.normalizedProducts) |->
                        buy.normalizedProducts[i].productCode]
            quantities == [i \in 1..Len(buy.normalizedProducts) |->
                        buy.normalizedProducts[i].quantity]
            mined == /\ signOk
                     /\ netOk
                     /\ balance[from] >= value + buyGasLimit(buy.gasEstimate) * gasPrice
            call == buyProducts(ProductStorage, value, codes, quantities)
            fee == buy.gasEstimate * gasPrice
        IN  IF ~mined
            THEN /\ buy' = BuyFail(IF signOk THEN [buy EXCEPT !.ops = @ \cup {"send"}]
                                   ELSE buy, 500, "Internal error")
                 /\ UNCHANGED <<ownerReceived, balance, nonce>>
            ELSE /\ nonce' = [nonce EXCEPT ![from] = @ + 1]
                 /\ IF call.ok
                    THEN /\ balance' = [balance EXCEPT ![from] = @ - (value + fee)]
                         /\ ownerReceived' = ownerReceived + call.toOwner
                         /\ buy' = [buy EXCEPT !.pc = "record",
                                               !.ops = @ \cup {"send", "paid"}]
                    ELSE /\ balance' = [balance EXCEPT ![from] = @ - fee]
                         /\ UNCHANGED ownerReceived
                         /\ buy' = BuyFail([buy EXCEPT !.ops = @ \cup {"send", "reverted"}],
                                           500, "Internal error")
    /\ UNCHANGED <<buyOthers, productVars>>

\* the bookkeeping after the payment: getAdminAccount, verifyContractOwner on
\* the EmployeeContract, recordPurchase sent by the server's account; whatever
\* happens in it is caught and logged, and the response is the success
BuyRecord ==
    /\ buy.pc = "record"
    /\ \E accountsOk \in BOOLEAN, readOk \in BOOLEAN, netOk \in BOOLEAN :
        LET admin == accounts0
            isOwner == verifyContractOwner(owner, admin, readOk)
            r == recordPurchase(Storage, admin, trim(buy.userCode), buy.totalPriceWei)
            known == trim(buy.userCode) \in UserCodes
            outcome == IF ~accountsOk THEN "recordFailed"
                       ELSE IF ~isOwner THEN "recordSkipped"
                       ELSE IF netOk /\ known /\ r.ok THEN "recorded"
                       ELSE "recordFailed"
        IN  /\ IF outcome = "recorded" THEN Commit(r.st) ELSE UNCHANGED contractVars
            /\ buy' = [buy EXCEPT
                         !.pc = "done",
                         !.ops = @ \cup {outcome}
                                   \cup (IF accountsOk /\ isOwner THEN {"recordSend"} ELSE {}),
                         !.res = recordPurchaseCaught(outcome, buy.totalPriceWei)]
    /\ UNCHANGED <<lastCall, accounts0, wd, srv, siteVars, productVars, ownerReceived,
                   balance, nonce>>

\* Transactions sent to the ProductContract by an account (the owner's
\* catalog changes, whichever client sends them).
TxAddProduct ==
    \E sender \in Callers, productCode \in ProductCodes, price \in Prices :
        /\ Len(productCodes) < MaxProductCodes
        /\ CommitProduct(addProduct(ProductStorage, sender, productCode, price).st)
        /\ UNCHANGED <<buyOthers, ownerReceived, balance, nonce, buy>>

TxUpdateProduct ==
    \E sender \in Callers, productCode \in ProductCodes, price \in Prices :
        /\ CommitProduct(updateProduct(ProductStorage, sender, productCode, price).st)
        /\ UNCHANGED <<buyOthers, ownerReceived, balance, nonce, buy>>

TxDeleteProduct ==
    \E sender \in Callers, productCode \in ProductCodes :
        /\ CommitProduct(deleteProduct(ProductStorage, sender, productCode).st)
        /\ UNCHANGED <<buyOthers, ownerReceived, balance, nonce, buy>>

\* Both contracts as deployed by the same account; employee "1" registered
\* with wallet 0xC1, employee "2" not registered; products A at 1.0 ETH and B
\* at 0.5 ETH added by the owner; wallet 0xC1 holds 4 ETH and wallet 0xC2
\* nothing; the server's account is the owner's or another one.
InitPurchase ==
    /\ Deployed(registerEmployee(constructor(Deployer), Deployer, "1", "0xC1").st)
    /\ LET a == addProduct(constructorProduct(Deployer), Deployer, "A", 100000000).st
       IN  DeployedProduct(addProduct(a, Deployer, "B", 50000000).st)
    /\ balance = [w \in Wallets |-> IF w = "0xC1" THEN BuyerFunds ELSE 0]
    /\ nonce = [w \in Wallets |-> 0]
    /\ accounts0 \in Callers
    /\ wd = NoWithdraw
    /\ srv = NoOutcome
    /\ ownerReceived = 0
    /\ buy = NoPurchase
    /\ SiteIdle

NextPurchase ==
    \/ BuyStart
    \/ BuyLookup
    \/ BuyEstimate
    \/ BuySend
    \/ BuyRecord
    \/ TxAddProduct
    \/ TxUpdateProduct
    \/ TxDeleteProduct

SpecPurchase == InitPurchase /\ [][NextPurchase]_vars

(***************************************************************************)
(* The purchase handler alone, with both employees registered: "1" with    *)
(* wallet 0xC1, which holds the funds, and "2" with wallet 0xC2.           *)
(***************************************************************************)
InitPurchaseRecord ==
    /\ LET one == registerEmployee(constructor(Deployer), Deployer, "1", "0xC1").st
       IN  Deployed(registerEmployee(one, Deployer, "2", "0xC2").st)
    /\ LET a == addProduct(constructorProduct(Deployer), Deployer, "A", 100000000).st
       IN  DeployedProduct(addProduct(a, Deployer, "B", 50000000).st)
    /\ balance = [w \in Wallets |-> IF w = "0xC1" THEN BuyerFunds ELSE 0]
    /\ nonce = [w \in Wallets |-> 0]
    /\ accounts0 \in Callers
    /\ wd = NoWithdraw
    /\ srv = NoOutcome
    /\ ownerReceived = 0
    /\ buy = NoPurchase
    /\ SiteIdle

NextPurchaseRecord ==
    \/ BuyStart
    \/ BuyLookup
    \/ BuyEstimate
    \/ BuySend
    \/ BuyRecord

SpecPurchaseRecord == InitPurchaseRecord /\ [][NextPurchaseRecord]_vars

(***************************************************************************)
(* POST /employee: insert of the user row with the placeholder wallet,     *)
(* createAndFundWallet, registerEmployee sent by the server's account,     *)
(* update of the row with the real wallet; one step per await. The users   *)
(* table is kept by the columns id, username and wallet_address; username  *)
(* and wallet_address are UNIQUE. Ids that a failed insert uses up are     *)
(* left out: the id of a new row is the number of rows plus one.           *)
(***************************************************************************)
Usernames == {"an", "binh"}
PlaceholderWallet == ZeroAddress     \* "0x0000000000000000000000000000000000000000"

\* userId.toString()
toString(id) ==
    CASE id = 1 -> "1"
      [] id = 2 -> "2"
      [] OTHER -> ""

\* INSERT INTO users: the UNIQUE constraints on username and wallet_address
insertUser(rows, username, wallet_address) ==
    IF \E i \in 1..Len(rows) : \/ rows[i].username = username
                               \/ rows[i].wallet_address = wallet_address
    THEN [ok |-> FALSE, rows |-> rows, insertId |-> 0]
    ELSE [ok |-> TRUE,
          rows |-> Append(rows, [id |-> Len(rows) + 1, username |-> username,
                                 wallet_address |-> wallet_address]),
          insertId |-> Len(rows) + 1]

\* UPDATE users SET wallet_address = ? WHERE id = ?
updateUserWallet(rows, id, wallet_address) ==
    [i \in 1..Len(rows) |->
        IF rows[i].id = id THEN [rows[i] EXCEPT !.wallet_address = wallet_address]
        ELSE rows[i]]

\* the addresses createAndFundWallet may return: a wallet of a new key, which
\* no employee has and which holds nothing
FreshWallets ==
    {w \in Wallets : /\ balance[w] = 0
                     /\ \A u \in UserCodes : employees[u].wallet # w}

\* what createAndFundWallet puts into the new wallet
walletFunding == UnitsPerTenthEth

RegResponse(status, error) == [status |-> status, error |-> error]

\* catch (err): res.status(500).json({ error: err.message })
RegFail(r, error) == [r EXCEPT !.pc = "done", !.res = RegResponse(500, error)]

regOthers == <<contractVars, lastCall, nonce, accounts0, wd, srv, purchaseVars,
               attendanceVars, wds>>

RegStart ==
    /\ reg.pc \in {"idle", "done"}
    /\ Len(users) < Cardinality(UserCodes)
    /\ FreshWallets # {}
    /\ \E role_id \in RoleIds, username \in Usernames :
        LET r == [NoRegistration EXCEPT !.role_id = role_id, !.username = username]
        IN  reg' = IF role_id = 3
                   THEN [r EXCEPT !.pc = "done",
                                  !.res = RegResponse(403, "Access denied for this role")]
                   ELSE [r EXCEPT !.pc = "insert"]
    /\ UNCHANGED <<regOthers, users, balance>>

RegInsert ==
    /\ reg.pc = "insert"
    /\ \E dbOk \in BOOLEAN :
        LET ins == insertUser(users, reg.username, PlaceholderWallet)
        IN  IF dbOk /\ ins.ok
            THEN /\ users' = ins.rows
                 /\ reg' = [reg EXCEPT !.pc = "wallet", !.userId = ins.insertId,
                                       !.ops = @ \cup {"insert"}]
            ELSE /\ users' = users
                 /\ reg' = RegFail(reg, "insert failed")
    /\ UNCHANGED <<regOthers, balance>>

RegWallet ==
    /\ reg.pc = "wallet"
    /\ \E ok \in BOOLEAN, address \in FreshWallets :
        IF ok
        THEN /\ balance' = [balance EXCEPT ![address] = @ + walletFunding]
             /\ reg' = [reg EXCEPT !.pc = "ledger", !.wallet = address,
                                   !.ops = @ \cup {"wallet"}]
        ELSE /\ balance' = balance
             /\ reg' = RegFail(reg, "createAndFundWallet failed")
    /\ UNCHANGED <<regOthers, users>>

RegLedger ==
    /\ reg.pc = "ledger"
    /\ \E netOk \in BOOLEAN :
        LET r == registerEmployee(Storage, accounts0, toString(reg.userId), reg.wallet)
        IN  IF netOk /\ r.ok
            THEN /\ Commit(r.st)
                 /\ reg' = [reg EXCEPT !.pc = "update", !.ops = @ \cup {"registered"}]
            ELSE /\ UNCHANGED contractVars
                 /\ reg' = RegFail(reg, "registerEmployee failed")
    /\ UNCHANGED <<lastCall, nonce, accounts0, wd, srv, purchaseVars, attendanceVars,
                   wds, users, balance>>

RegUpdate ==
    /\ reg.pc = "update"
    /\ \E dbOk \in BOOLEAN :
        IF dbOk
        THEN /\ users' = updateUserWallet(users, reg.userId, reg.wallet)
             /\ reg' = [reg EXCEPT !.pc = "done", !.ops = @ \cup {"update"},
                                   !.res = RegResponse(200, "")]
        ELSE /\ users' = users
             /\ reg' = RegFail(reg, "update failed")
    /\ UNCHANGED <<regOthers, balance>>

\* The contract as deployed, no employee registered, an empty users table;
\* the server's account is the owner's or another one.
InitRegistration ==
    /\ Deployed(constructor(Deployer))
    /\ balance = [w \in Wallets |-> 0]
    /\ nonce = [w \in Wallets |-> 0]
    /\ accounts0 \in Callers
    /\ wd = NoWithdraw
    /\ srv = NoOutcome
    /\ DeployedProduct(constructorProduct(Deployer))
    /\ ownerReceived = 0
    /\ buy = NoPurchase
    /\ SiteIdle

NextRegistration ==
    \/ RegStart
    \/ RegInsert
    \/ RegWallet
    \/ RegLedger
    \/ RegUpdate

SpecRegistration == InitRegistration /\ [][NextRegistration]_vars

(***************************************************************************)
(* POST /access-log. The handler reads the clock and queues the query on   *)
(* the cards table; the database connection runs the queued queries in     *)
(* order, and the callback of each runs with its result: the cards         *)
(* callback queues the last-entry lookup (for an exit scan, access_type 1) *)
(* and the insert, the lookup callback starts creditEmployeeWork without   *)
(* awaiting it. responses holds the statuses the handler has sent for one  *)
(* request, one per call of res.json. The accrual started by a request     *)
(* goes on by its own steps, one per transaction the server's account      *)
(* sends: credit is "transferring" while web3.eth.sendTransaction is       *)
(* awaited and "recording" while creditForWork(...).send is.               *)
(***************************************************************************)
ScanCodes == {"K 1", "K0", "none"}
AccessTypes == {0, 1}                \* 0 entry, 1 exit

\* data["code"].replace(/\s/g, "").trim()
stripSpaces(code) ==
    CASE code = "K 1" -> "K1"
      [] OTHER -> code

\* the cards table: card K1 is assigned to user 1, card K0 to nobody
cards ==
    <<[id |-> 1, card_uid |-> "K1", user_id |-> 1],
      [id |-> 2, card_uid |-> "K0", user_id |-> 0]>>

\* SELECT * FROM cards WHERE card_uid = ?
selectCards(code) == SelectSeq(cards, LAMBDA row : row.card_uid = code)

\* SELECT * FROM access_logs WHERE user_id = ? AND access_type = 0
\* ORDER BY access_time DESC LIMIT 1: the rows it may return (rows of equal
\* access_time come in either order)
lastEntries(rows, userId) ==
    LET entries == {i \in 1..Len(rows) : rows[i].user_id = userId /\ rows[i].access_type = 0}
    IN  {i \in entries : \A j \in entries : rows[j].access_time <= rows[i].access_time}

Respond(sc, status) == [sc EXCEPT !.responses = Append(@, status)]

Query(r, query) == [req |-> r, query |-> query]

\* the steps of the accrual that end in the section of an owner transaction
InOwnerSection(r) == scans[r].credit \in {"transferring", "recording"}

scanOthers == <<lastCall, nonce, accounts0, wd, srv, purchaseVars, registrationVars, wds>>

\* a request is numbered by its place in the order of arrival
ScanArrive ==
    \E code \in ScanCodes, access_type \in AccessTypes :
        /\ Len(scans) < MaxScans
        /\ scans' = Append(scans, [NoScan EXCEPT !.pc = "received",
                                                 !.code = stripSpaces(code),
                                                 !.access_type = access_type,
                                                 !.now = clock])
        /\ dbQueue' = Append(dbQueue, Query(Len(scans) + 1, "cards"))
        /\ UNCHANGED <<scanOthers, contractVars, balance, accessLogs, clock>>

Tick ==
    /\ clock < MaxTicks * 60
    /\ clock' = clock + 60
    /\ UNCHANGED <<scanOthers, contractVars, balance, accessLogs, scans, dbQueue>>

\* callback of the query on cards
DbCards ==
    /\ dbQueue # <<>>
    /\ Head(dbQueue).query = "cards"
    /\ \E dbOk \in BOOLEAN :
        LET r == Head(dbQueue).req
            sc == scans[r]
            results == selectCards(sc.code)
        IN  IF ~dbOk
            THEN /\ scans' = [scans EXCEPT ![r] = Respond(sc, 500)]
                 /\ dbQueue' = Tail(dbQueue)
            ELSE IF Len(results) = 0
            THEN /\ scans' = [scans EXCEPT ![r] = Respond(sc, 404)]
                 /\ dbQueue' = Tail(dbQueue)
            ELSE IF results[1].user_id = 0
            THEN /\ scans' = [scans EXCEPT ![r] = Respond(sc, 400)]
                 /\ dbQueue' = Tail(dbQueue)
            ELSE /\ scans' = [scans EXCEPT ![r].userId = results[1].user_id,
                                           ![r].cardId = results[1].id]
                 /\ dbQueue' = Tail(dbQueue)
                                \o (IF sc.access_type = 1 THEN <<Query(r, "lastEntry")>>
                                    ELSE <<>>)
                                \o <<Query(r, "insert")>>
    /\ UNCHANGED <<scanOthers, contractVars, balance, accessLogs, clock>>

\* callback of the last-entry lookup of an exit scan
DbLastEntry ==
    /\ dbQueue # <<>>
    /\ Head(dbQueue).query = "lastEntry"
    /\ LET r == Head(dbQueue).req
           sc == scans[r]
           found == lastEntries(accessLogs, sc.userId)
       IN  \/ scans' = [scans EXCEPT ![r] = Respond(sc, 500)]
           \/ /\ found = {}
              /\ scans' = [scans EXCEPT ![r] = Respond(sc, 200)]
           \/ \E i \in found :
                 scans' = [scans EXCEPT ![r].credit = "start",
                                        ![r].entryId = i,
                                        ![r].checkin = accessLogs[i].access_time]
    /\ dbQueue' = Tail(dbQueue)
    /\ UNCHANGED <<scanOthers, contractVars, balance, accessLogs, clock>>

\* callback of the insert into access_logs
DbInsert ==
    /\ dbQueue # <<>>
    /\ Head(dbQueue).query = "insert"
    /\ \E dbOk \in BOOLEAN :
        LET r == Head(dbQueue).req
            sc == scans[r]
        IN  IF ~dbOk
            THEN /\ scans' = [scans EXCEPT ![r] = Respond(sc, 500)]
                 /\ accessLogs' = accessLogs
            ELSE /\ scans' = [scans EXCEPT ![r] = Respond(sc, 200)]
                 /\ accessLogs' = Append(accessLogs,
                                         [user_id |-> sc.userId, card_id |-> sc.cardId,
                                          access_type |-> sc.access_type,
                                          access_time |-> sc.now])
    /\ dbQueue' = Tail(dbQueue)
    /\ UNCHANGED <<scanOthers, contractVars, balance, clock>>

\* creditEmployeeWork up to its call of web3.eth.sendTransaction
AccrualStart ==
    \E r \in DOMAIN scans :
        LET sc == scans[r]
            c == creditEmployeeWork(Storage, accounts0, toString(sc.userId),
                                    sc.checkin, sc.now)
        IN  /\ sc.credit = "start"
            /\ scans' = [scans EXCEPT ![r].credit =
                            IF c.sent THEN "transferring"
                            ELSE IF c.status = 200 THEN "nothing" ELSE "thrown"]
            /\ UNCHANGED <<scanOthers, contractVars, balance, accessLogs, clock, dbQueue>>

\* the transfer to the employee's wallet is mined, or sending it fails;
\* creditForWork(...).send is called next
AccrualTransfer ==
    \E r \in DOMAIN scans, netOk \in BOOLEAN :
        LET sc == scans[r]
            c == creditEmployeeWork(Storage, accounts0, toString(sc.userId),
                                    sc.checkin, sc.now)
        IN  /\ sc.credit = "transferring"
            /\ BalanceTotal(Wallets) + c.amountWei <= MaxWalletMinutes * amountPerMinute
            /\ IF netOk
               THEN /\ balance' = [balance EXCEPT ![c.to] = @ + c.amountWei]
                    /\ scans' = [scans EXCEPT ![r].credit = "recording"]
               ELSE /\ balance' = balance
                    /\ scans' = [scans EXCEPT ![r].credit = "thrown"]
            /\ UNCHANGED <<scanOthers, contractVars, accessLogs, clock, dbQueue>>

\* creditForWork is mined, or reverts, or sending it fails
AccrualRecord ==
    \E r \in DOMAIN scans, netOk \in BOOLEAN :
        LET sc == scans[r]
            rec == creditForWork(Storage, accounts0, toString(sc.userId),
                                 sc.checkin, sc.now)
        IN  /\ sc.credit = "recording"
            /\ LogRoom
            /\ IF netOk /\ rec.ok
               THEN /\ Commit(rec.st)
                    /\ scans' = [scans EXCEPT ![r].credit = "credited"]
               ELSE /\ UNCHANGED contractVars
                    /\ scans' = [scans EXCEPT ![r].credit = "thrown"]
            /\ UNCHANGED <<scanOthers, balance, accessLogs, clock, dbQueue>>

\* The contract as deployed by the server's account, employee "1" registered
\* with wallet 0xC1 (user 1 of the users table), an empty access_logs table.
InitAccess ==
    /\ Deployed(registerEmployee(constructor(Deployer), Deployer, "1", "0xC1").st)
    /\ balance = [w \in Wallets |-> 0]
    /\ nonce = [w \in Wallets |-> 0]
    /\ accounts0 = Deployer
    /\ wd = NoWithdraw
    /\ srv = NoOutcome
    /\ DeployedProduct(constructorProduct(Deployer))
    /\ ownerReceived = 0
    /\ buy = NoPurchase
    /\ SiteIdle

NextAccess ==
    \/ ScanArrive
    \/ Tick
    \/ DbCards
    \/ DbLastEntry
    \/ DbInsert
    \/ AccrualStart
    \/ AccrualTransfer
    \/ AccrualRecord

SpecAccess == InitAccess /\ [][NextAccess]_vars

(***************************************************************************)
(* Two POST /employee/withdraw requests in flight together, each advancing *)
(* by the steps of the route (one per network round trip), on its own      *)
(* record wds[i]. The handler shares nothing between requests but the      *)
(* chain and the ledger.                                                   *)
(***************************************************************************)
PairKeys == {"0xk1", "k2"}
PairFunds == 25000000                    \* 0.25 ETH in each employee wallet

pairOthers == <<lastCall, accounts0, wd, srv, purchaseVars, registrationVars,
                attendanceVars>>

PairStart ==
    \E i \in Slots, userCode \in UserCodes, privateKey \in PairKeys, amount \in EthTenths :
        LET w == [NoWithdraw EXCEPT !.userCode = userCode, !.privateKey = privateKey,
                                    !.amount = amount]
            pk == with0x(privateKey)
            acct == privateKeyToAccount(pk)
        IN  /\ wds[i].pc \in {"idle", "done"}
            /\ NonceTotal(Wallets) < MaxNonce
            /\ wds' = [wds EXCEPT ![i] =
                         IF userCode = "" \/ privateKey = "" \/ amount = 0
                         THEN Fail(w, 400, "userCode, privateKey, amount required")
                         ELSE IF ~acct.ok
                              THEN Fail(w, 500, "Invalid private key")
                         ELSE [w EXCEPT !.pc = "getEmployee", !.privateKey = pk,
                                        !.from = acct.address]]
            /\ UNCHANGED <<pairOthers, contractVars, balance, nonce>>

PairGetEmployee ==
    \E i \in Slots :
        LET w == wds[i]
            emp == getEmployee(Storage, w.userCode)
        IN  /\ w.pc = "getEmployee"
            /\ wds' = [wds EXCEPT ![i] =
                         IF ~emp.ok
                         THEN Fail(w, 500, "execution reverted: Employee not found")
                         ELSE IF emp.userCode = ""
                              THEN Fail(w, 404, "Employee not found")
                         ELSE IF walletMismatch(emp.wallet, w.from)
                              THEN Fail(w, 400, "privateKey does not match employee wallet")
                         ELSE [w EXCEPT !.pc = "funds", !.wallet = emp.wallet,
                                        !.amountWei = toWei(w.amount)]]
            /\ UNCHANGED <<pairOthers, contractVars, balance, nonce>>

\* getTransactionCount(from, "pending"), getBalance(from), getGasPrice and
\* the balance check
PairCheckFunds ==
    \E i \in Slots, gasPrice \in GasPrices :
        LET balanceWei == balance[wds[i].from]
            w == [wds[i] EXCEPT !.txCount = nonce[wds[i].from], !.gasPrice = gasPrice]
        IN  /\ wds[i].pc = "funds"
            /\ wds' = [wds EXCEPT ![i] =
                         IF insufficient(balanceWei, w.amountWei, gasPrice)
                         THEN Fail(w, 400, "Insufficient funds to cover amount + gas")
                         ELSE [w EXCEPT !.pc = "sign"]]
            /\ UNCHANGED <<pairOthers, contractVars, balance, nonce>>

PairSign ==
    \E i \in Slots, signOk \in BOOLEAN :
        LET w == [wds[i] EXCEPT !.ops = @ \cup {"sign"}]
        IN  /\ wds[i].pc = "sign"
            /\ wds' = [wds EXCEPT ![i] = IF signOk THEN [w EXCEPT !.pc = "send"]
                                         ELSE Fail(w, 500, "signTransaction failed")]
            /\ UNCHANGED <<pairOthers, contractVars, balance, nonce>>

\* the chain mines the transfer when its nonce is the sender's next one and
\* the sender can pay value plus gas
PairSend ==
    \E i \in Slots, netOk \in BOOLEAN :
        LET w == [wds[i] EXCEPT !.ops = @ \cup {"send"}]
            cost == transferCost(w.amountWei, w.gasPrice)
        IN  /\ wds[i].pc = "send"
            /\ IF netOk /\ w.txCount = nonce[w.from] /\ balance[w.from] >= cost
               THEN /\ balance' = [balance EXCEPT ![w.from] = @ - cost]
                    /\ nonce' = [nonce EXCEPT ![w.from] = @ + 1]
                    /\ wds' = [wds EXCEPT ![i] =
                                 [w EXCEPT !.pc = "owner", !.ops = @ \cup {"transferred"}]]
               ELSE /\ UNCHANGED <<balance, nonce>>
                    /\ wds' = [wds EXCEPT ![i] =
                                 Fail(w, 500, "sendSignedTransaction failed")]
            /\ UNCHANGED <<pairOthers, contractVars>>

\* owner().call(), estimateGas and recordWithdraw(...).send
PairRecord ==
    \E i \in Slots, netOk \in BOOLEAN :
        LET r == recordWithdraw(Storage, accounts0, wds[i].userCode, wds[i].amountWei)
            w == [wds[i] EXCEPT !.ops = @ \cup {"estimateGas"}]
            sent == [w EXCEPT !.ops = @ \cup {"recordSend"}]
        IN  /\ wds[i].pc = "owner"
            /\ LogRoom
            /\ IF ownerMismatch(owner, accounts0)
               THEN /\ wds' = [wds EXCEPT ![i] = Fail(wds[i], 400, "Contract owner mismatch")]
                    /\ UNCHANGED contractVars
               ELSE IF ~r.ok
               THEN /\ wds' = [wds EXCEPT ![i] =
                                 Fail(w, 500, "recordWithdraw estimateGas failed")]
                    /\ UNCHANGED contractVars
               ELSE IF ~netOk
               THEN /\ wds' = [wds EXCEPT ![i] =
                                 Fail(sent, 500, "recordWithdraw transaction failed")]
                    /\ UNCHANGED contractVars
               ELSE /\ Commit(r.st)
                    /\ wds' = [wds EXCEPT ![i] =
                                 [sent EXCEPT !.pc = "done",
                                              !.res = Response(200, "", TRUE, TRUE)]]
            /\ UNCHANGED <<pairOthers, balance, nonce>>

\* Employees "1" and "2" registered by the owner with wallets 0xC1 and 0xC2,
\* each holding 0.25 ETH; the server's account is the owner's or another one.
InitWithdrawPair ==
    /\ LET one == registerEmployee(constructor(Deployer), Deployer, "1", "0xC1").st
       IN  Deployed(registerEmployee(one, Deployer, "2", "0xC2").st)
    /\ balance = [w \in Wallets |-> PairFunds]
    /\ nonce = [w \in Wallets |-> 0]
    /\ accounts0 \in Callers
    /\ wd = NoWithdraw
    /\ srv = NoOutcome
    /\ DeployedProduct(constructorProduct(Deployer))
    /\ ownerReceived = 0
    /\ buy = NoPurchase
    /\ users = <<>>
    /\ reg = NoRegistration
    /\ accessLogs = <<>>
    /\ clock = 0
    /\ scans = <<>>
    /\ dbQueue = <<>>
    /\ wds = [i \in Slots |-> NoWithdraw]

NextWithdrawPair ==
    \/ PairStart
    \/ PairGetEmployee
    \/ PairCheckFunds
    \/ PairSign
    \/ PairSend
    \/ PairRecord

SpecWithdrawPair == InitWithdrawPair /\ [][NextWithdrawPair]_vars

(***************************************************************************)
(* The two routes that broadcast a transaction signed with a client's key, *)
(* side by side: a withdraw request and a purchase request in flight at    *)
(* the same time, each advancing by its own steps.                         *)
(***************************************************************************)
NextBroadcast ==
    \/ WdStart
    \/ WdGetEmployee
    \/ WdCheckFunds
    \/ WdSign
    \/ WdSend
    \/ WdOwnerCheck
    \/ WdEstimate
    \/ WdRecord
    \/ BuyStart
    \/ BuyLookup
    \/ BuyEstimate
    \/ BuySend
    \/ BuyRecord

SpecBroadcast == InitPurchase /\ [][NextBroadcast]_vars

(***************************************************************************)
(* Claims about the ledger, checked under Spec.                            *)
(***************************************************************************)
Registered(u) == employees[u].wallet # ZeroAddress

\* C1: for every registered employee totalWithdrawn <= totalCredited (a
\* recordWithdraw that would exceed the credited total is rejected).
C1_WithdrawnWithinCredited ==
    \A u \in UserCodes : Registered(u) => totalWithdrawn[u] <= totalCredited[u]

\* C2: for every registered employee getEmployeeBookBalance returns (does not
\* fail) the sum of the credits minus the sum of the recorded withdrawals.
C2_BookBalanceIsSumOfCreditsMinusWithdrawals ==
    \A u \in UserCodes :
        Registered(u) =>
            LET r == getEmployeeBookBalance(Storage, u)
            IN  /\ r.ok
                /\ r.value = SumOf(logs[u], 0) - SumOf(logs[u], 1)

\* C3: a ledger-mutating transaction whose sender is not the owner fails with
\* "Not authorized" and leaves the whole contract storage unchanged; the owner
\* never changes.
C3_NonOwnerRejected ==
    [][/\ owner' = owner
       /\ lastCall'.sender # owner =>
            /\ ~lastCall'.ok
            /\ lastCall'.reason = "Not authorized"
            /\ UNCHANGED contractVars]_vars

C3_Witness ==
    /\ lastCall.op = "recordWithdraw"
    /\ lastCall.sender # owner
    /\ Registered(lastCall.userCode)
    /\ \E u \in UserCodes : totalCredited[u] > 0

\* C10: recordWithdraw(userCode, amount) by the owner for a registered employee
\* whose log already holds a Withdraw entry of that amount succeeds again: it
\* adds amount to totalWithdrawn and appends another Withdraw entry; the total
\* withdrawn is the sum of all Withdraw entries, repeated ones included.
AlreadyRecorded(u, amount) ==
    \E i \in 1..Len(logs[u]) : logs[u][i] = [action |-> 1, amount |-> amount]

C10_RepeatedWithdrawCountsAgain ==
    [][/\ lastCall'.op = "recordWithdraw"
       /\ lastCall'.sender = owner
       /\ lastCall'.userCode \in UserCodes
       /\ Registered(lastCall'.userCode)
       /\ AlreadyRecorded(lastCall'.userCode, lastCall'.amount)
       => LET u == lastCall'.userCode
              a == lastCall'.amount
          IN  /\ lastCall'.ok
              /\ totalWithdrawn'[u] = totalWithdrawn[u] + a
              /\ logs'[u] = Append(logs[u], [action |-> 1, amount |-> a])
              /\ totalWithdrawn'[u] = SumOf(logs'[u], 1)]_vars

C10_Witness ==
    \E u \in UserCodes, a \in WeiAmounts :
        /\ lastCall.op = "recordWithdraw"
        /\ lastCall.ok
        /\ logs[u] = <<[action |-> 1, amount |-> a], [action |-> 1, amount |-> a]>>
        /\ totalWithdrawn[u] = 2 * a

\* C11: for every checkin <= checkout, creditForWork by the owner for a
\* registered employee succeeds with minutesWorked = floor((checkout -
\* checkin) / 60); when minutesWorked >= 1 it appends exactly one Credit entry
\* of minutesWorked x amountPerMinute to that employee's log and raises
\* totalCredited, hence the book balance totalCredited - totalWithdrawn, by
\* exactly that amount; when minutesWorked = 0 it changes nothing.
C11_AccrualCreditsFloorMinutes ==
    \A u \in UserCodes, checkin \in Checkins, checkout \in Checkouts :
        (Registered(u) /\ checkin <= checkout) =>
            LET r == creditForWork(Storage, owner, u, checkin, checkout)
                minutesWorked == (checkout - checkin) \div 60
                amount == minutesWorked * amountPerMinute
            IN  /\ r.ok
                /\ minutesWorked = 0 => r.st = Storage
                /\ minutesWorked >= 1 =>
                      /\ r.st.logs =
                            [logs EXCEPT ![u] =
                                Append(@, [action |-> 0, amount |-> amount])]
                      /\ r.st.totalWithdrawn = totalWithdrawn
                      /\ (r.st.totalCredited[u] - r.st.totalWithdrawn[u])
                            = (totalCredited[u] - totalWithdrawn[u]) + amount
                      /\ \A v \in UserCodes \ {u} :
                            r.st.totalCredited[v] = totalCredited[v]

\* checkin = 1000, checkout = 1185: three minutes credited
C11_Witness ==
    \E u \in UserCodes :
        /\ lastCall.op = "creditForWork"
        /\ lastCall.ok
        /\ lastCall.userCode = u
        /\ logs[u] = <<[action |-> 0, amount |-> 3 * amountPerMinute]>>
        /\ totalCredited[u] = 3 * amountPerMinute
        /\ totalWithdrawn[u] = 0

\* C14: recordPurchase(userCode, amount) by the owner for a registered employee
\* succeeds, appends exactly one Purchase entry of that amount to that
\* employee's log and leaves totalCredited, totalWithdrawn, the result of
\* getEmployeeBookBalance, every other employee's log and all employee
\* records unchanged.
C14_PurchaseOnlyAppendsToLog ==
    [][/\ lastCall'.op = "recordPurchase"
       /\ lastCall'.sender = owner
       /\ lastCall'.userCode \in UserCodes
       /\ Registered(lastCall'.userCode)
       => LET u == lastCall'.userCode
              a == lastCall'.amount
          IN  /\ lastCall'.ok
              /\ logs' = [logs EXCEPT ![u] = Append(@, [action |-> 2, amount |-> a])]
              /\ UNCHANGED <<totalCredited, totalWithdrawn, employees,
                             employeeCodes, employeeCount, owner>>
              /\ \A v \in UserCodes :
                    getEmployeeBookBalance(Storage, v)' = getEmployeeBookBalance(Storage, v)]_vars

C14_Witness ==
    \E u \in UserCodes, a \in WeiAmounts :
        /\ lastCall.op = "recordPurchase"
        /\ lastCall.ok
        /\ lastCall.userCode = u
        /\ Len(logs[u]) = 2
        /\ logs[u][1].action = 0
        /\ logs[u][2] = [action |-> 2, amount |-> a]
        /\ totalCredited[u] = logs[u][1].amount
        /\ totalWithdrawn[u] = 0

\* C15: for every registered employee whose getEmployeeBookBalance returns,
\* the bookBalance of GET /employee/:userCode/logs is that ledger balance
\* minus the sum of the employee's Purchase entries, and it is the ledger
\* balance itself if and only if that sum is zero.
C15_LogsBalanceIsLedgerBalanceLessPurchases ==
    \A u \in UserCodes :
        LET e == employeeLogs(Storage, u)
            b == getEmployeeBookBalance(Storage, u)
            purchases == SumOf(logs[u], 2)
        IN  (Registered(u) /\ b.ok) =>
                /\ e.status = 200
                /\ e.bookBalance = NumberFromWei(b.value - purchases)
                /\ (e.bookBalance = NumberFromWei(b.value)) <=> (purchases = 0)

\* C16: every employee's log is append-only. In every step the log either
\* stays as it is or gets one entry at its end, so its length never decreases
\* and every entry keeps its index, action and amount; for a registered
\* employee getLogCount is the number of entries appended so far and
\* getLogByIndex(userCode, i), for every i below it, returns before and after
\* the step the entry that was appended as the (i+1)-th.
C16_LogAppendOnly ==
    [][\A u \in UserCodes :
        /\ Len(logs'[u]) >= Len(logs[u])
        /\ \/ logs'[u] = logs[u]
           \/ /\ Len(logs'[u]) = Len(logs[u]) + 1
              /\ SubSeq(logs'[u], 1, Len(logs[u])) = logs[u]
        /\ Registered(u) =>
              /\ getLogCount(Storage, u) = [ok |-> TRUE, reason |-> "", value |-> Len(logs[u])]
              /\ \A i \in 0..(Len(logs[u]) - 1) :
                    /\ getLogByIndex(Storage, u, i).ok
                    /\ getLogByIndex(Storage, u, i).action = logs[u][i + 1].action
                    /\ getLogByIndex(Storage, u, i).amount = logs[u][i + 1].amount
                    /\ getLogByIndex(Storage, u, i)' = getLogByIndex(Storage, u, i)]_vars

\* a log of two different entries, the second just appended
C16_Witness ==
    \E u \in UserCodes :
        /\ lastCall.ok
        /\ lastCall.userCode = u
        /\ lastCall.op \in {"recordWithdraw", "recordPurchase"}
        /\ Len(logs[u]) = 2
        /\ logs[u][1].action = 0
        /\ logs[u][2].action # 0
        /\ getLogByIndex(Storage, u, 1).action = logs[u][2].action

\* C17: for every employee no step decreases totalCredited or totalWithdrawn,
\* and before and after every step totalCredited is the sum of the amounts of
\* the employee's Credit entries and totalWithdrawn the sum of the amounts of
\* the Withdraw entries.
C17_TotalsMonotoneAndSumOfEntries ==
    [][\A u \in UserCodes :
        /\ totalCredited'[u] >= totalCredited[u]
        /\ totalWithdrawn'[u] >= totalWithdrawn[u]
        /\ totalCredited[u] = SumOf(logs[u], 0)
        /\ totalWithdrawn[u] = SumOf(logs[u], 1)
        /\ totalCredited'[u] = SumOf(logs'[u], 0)
        /\ totalWithdrawn'[u] = SumOf(logs'[u], 1)]_vars

\* a credit and then a withdrawal recorded for the same employee
C17_Witness ==
    \E u \in UserCodes :
        /\ lastCall.op = "recordWithdraw"
        /\ lastCall.ok
        /\ lastCall.userCode = u
        /\ Len(logs[u]) = 2
        /\ totalCredited[u] = logs[u][1].amount
        /\ totalWithdrawn[u] = logs[u][2].amount
        /\ totalCredited[u] > 0
        /\ totalWithdrawn[u] > 0
(***************************************************************************)
(* Claims about the withdraw route and the server's calls, checked under   *)
(* SpecServer.                                                             *)
(***************************************************************************)
\* C4: when the transfer was broadcast and the request did not end in success
\* (the record step did not complete), the response carries the transfer's
\* transaction id together with the record error.
C4_PartialFailureCarriesTransferId ==
    (wd.pc = "done" /\ "transferred" \in wd.ops /\ wd.res.status # 200)
        => (wd.res.transferTx /\ wd.res.error # "")

\* C5: a withdraw request whose key derives an address other than the wallet
\* registered for its userCode ends with status 400 "privateKey does not match
\* employee wallet"; nothing was signed, broadcast or recorded for it, and the
\* step leaves every balance, nonce and the contract storage unchanged.
C5_CredentialMismatchNoSideEffects ==
    [][/\ (/\ wd.pc = "getEmployee"
           /\ wd' # wd
           /\ Registered(wd.userCode)
           /\ employees[wd.userCode].wallet # wd.from)
          => /\ wd'.pc = "done"
             /\ wd'.res = Response(400, "privateKey does not match employee wallet",
                                   FALSE, FALSE)
             /\ UNCHANGED <<contractVars, balance, nonce>>
       /\ wd'.res.error = "privateKey does not match employee wallet"
          => wd'.ops = {}]_vars

C5_Witness ==
    /\ wd.pc = "done"
    /\ wd.res.error = "privateKey does not match employee wallet"
    /\ wd.from = "0xC2"
    /\ balance[employees[wd.userCode].wallet] > 0

\* C6: a withdraw request that reaches the funds check with a balance below
\* amount + 21000 x gasPrice ends there with status 400 "Insufficient funds";
\* nothing was signed, broadcast or recorded for it.
C6_InsufficientFundsBeforeSigning ==
    [][/\ (/\ wd.pc = "funds"
           /\ wd' # wd
           /\ balance[wd.from] < wd.amountWei + 21000 * wd'.gasPrice)
          => /\ wd'.pc = "done"
             /\ wd'.res = Response(400, "Insufficient funds to cover amount + gas",
                                   FALSE, FALSE)
             /\ UNCHANGED <<contractVars, balance, nonce>>
       /\ wd'.res.error = "Insufficient funds to cover amount + gas"
          => wd'.ops = {}]_vars

C6_Witness ==
    /\ wd.pc = "done"
    /\ wd.res.error = "Insufficient funds to cover amount + gas"
    /\ balance[wd.from] >= wd.amountWei
    /\ wd.amountWei > 0

\* C7: when the server's account is not the contract owner, a withdraw request
\* never reaches the recordWithdraw calls (estimateGas, send), and once its
\* transfer is mined it ends with status 400 "Contract owner mismatch".
C7_OwnerCheckedBeforeRecord ==
    accounts0 # owner =>
        /\ wd.pc \notin {"estimate", "record"}
        /\ wd.ops \cap {"estimateGas", "recordSend"} = {}
        /\ (wd.pc = "done" /\ "transferred" \in wd.ops)
              => wd.res = Response(400, "Contract owner mismatch", FALSE, FALSE)

C7_Witness ==
    /\ accounts0 # owner
    /\ wd.pc = "done"
    /\ "transferred" \in wd.ops

\* C8: the server sends a ledger-mutating call only when its account is the
\* contract owner (on a mismatch the call is never sent).
C8_MutatingCallsOnlyFromOwner ==
    /\ srv.sent => accounts0 = owner
    /\ "recordSend" \in wd.ops => accounts0 = owner

\* C9: the step that broadcasts the transfer takes amount + 21000 x gasPrice
\* from the employee's wallet; a withdraw request changes totalWithdrawn and
\* the logs only in the step that ends it with status 200, so a request that
\* fails after its transfer leaves them and the balances as they were; no step
\* of a withdraw request ever adds to a wallet's balance.
C9_NoRollbackAfterTransfer ==
    [][wd' # wd =>
        /\ ("transferred" \in wd'.ops /\ "transferred" \notin wd.ops)
              => balance' = [balance EXCEPT
                               ![wd.from] = @ - (wd.amountWei + 21000 * wd.gasPrice)]
        /\ ("transferred" \in wd.ops /\ wd'.pc = "done" /\ wd'.res.status # 200)
              => UNCHANGED <<balance, totalWithdrawn, logs>>
        /\ <<totalWithdrawn, logs>>' # <<totalWithdrawn, logs>>
              => (wd'.pc = "done" /\ wd'.res.status = 200)
        /\ \A w \in Wallets : balance'[w] <= balance[w]]_vars

C9_Witness ==
    /\ wd.pc = "done"
    /\ wd.res.status = 500
    /\ {"transferred", "recordSend"} \subseteq wd.ops
    /\ totalWithdrawn[wd.userCode] = 0

\* C12: for every registered employee and every 0 <= checkout - checkin < 60
\* (checkout = checkin included) neither creditEmployeeWork nor creditForWork
\* fails: creditEmployeeWork returns a zero-amount result, transfers nothing,
\* sends no transaction and leaves the ledger as it was, and creditForWork
\* called by the owner succeeds without an entry.
C12_ShortStayIsNotAnError ==
    \A u \in UserCodes, checkin \in Checkins, checkout \in Checkouts :
        (Registered(u) /\ 0 <= checkout - checkin /\ checkout - checkin < 60) =>
            LET c == creditEmployeeWork(Storage, accounts0, u, checkin, checkout)
                r == creditForWork(Storage, owner, u, checkin, checkout)
            IN  /\ c.status = 200
                /\ c.minutes = 0
                /\ c.amountWei = 0
                /\ ~c.sent
                /\ c.st = Storage
                /\ r.ok
                /\ r.st = Storage

\* C13: for every accrual of minutesWorked >= 1 that creditEmployeeWork
\* completes, the wei amount it transfers to the employee's wallet is exactly
\* minutesWorked x 10^17 (no wei more or less), the amount creditForWork adds
\* to totalCredited.
C13_TransferEqualsCreditedAmount ==
    \A u \in UserCodes, checkin \in Checkins, checkout \in Checkouts :
        LET c == creditEmployeeWork(Storage, accounts0, u, checkin, checkout)
        IN  (c.status = 200 /\ c.minutes >= 1) =>
                /\ c.amountWei = c.minutes * amountPerMinute
                /\ c.residueWei = 0
                /\ c.st.totalCredited[u] - totalCredited[u] = c.amountWei

(***************************************************************************)
(* Claims about the purchase handler, checked under SpecPurchase.          *)
(***************************************************************************)
\* the sum over line items of (catalog price now) x quantity
RECURSIVE CatalogTotal(_)
CatalogTotal(items) ==
    IF items = <<>> THEN 0
    ELSE products[Head(items).productCode].price * Head(items).quantity
         + CatalogTotal(Tail(items))

\* the sum over line items of (price resolved by the server) x quantity
RECURSIVE ResolvedTotal(_)
ResolvedTotal(items) ==
    IF items = <<>> THEN 0
    ELSE Head(items).priceWei * Head(items).quantity + ResolvedTotal(Tail(items))

\* C18: every line item is priced by the server with the catalog price of its
\* product at the lookup (not with the price given in the request) and adds
\* price x quantity to the total; a payment that goes through moves exactly
\* that total, which is the sum over the line items of catalog price x
\* quantity when it executes; and a successful response reports that total.
C18_TotalIsCatalogPriceTimesQuantity ==
    [][/\ (buy'.pc # "idle"
           /\ Len(buy'.normalizedProducts) = Len(buy.normalizedProducts) + 1)
          => LET i == Len(buy'.normalizedProducts)
                 item == buy'.normalizedProducts[i]
             IN  /\ item.productCode = trim(buy.products[i].productCode)
                 /\ item.quantity = buy.products[i].quantity
                 /\ item.priceWei = products[item.productCode].price
                 /\ buy'.totalPriceWei
                       = buy.totalPriceWei + products[item.productCode].price * item.quantity
       /\ ("paid" \in buy'.ops /\ "paid" \notin buy.ops)
          => /\ ownerReceived' - ownerReceived = buy.totalPriceWei
             /\ balance[buy.from] - balance'[buy.from] >= buy.totalPriceWei
             /\ buy.totalPriceWei = CatalogTotal(buy.normalizedProducts)
             /\ buy.totalPriceWei = ResolvedTotal(buy.normalizedProducts)
       /\ (buy'.pc = "done" /\ buy.pc # "done" /\ buy'.res.status = 200)
          => /\ "paid" \in buy.ops
             /\ buy'.res.totalPriceWei = buy.totalPriceWei
             /\ buy'.res.totalPriceWei = ResolvedTotal(buy'.normalizedProducts)]_vars

\* prices 1.0 and 0.5 ETH, quantities 2 and 3: 3.5 ETH paid and reported
C18_Witness ==
    /\ buy.pc = "done"
    /\ buy.res.status = 200
    /\ Len(buy.normalizedProducts) = 2
    /\ buy.normalizedProducts[1].priceWei = 100000000
    /\ buy.normalizedProducts[1].quantity = 2
    /\ buy.normalizedProducts[2].priceWei = 50000000
    /\ buy.normalizedProducts[2].quantity = 3
    /\ buy.res.totalPriceWei = 350000000
    /\ ownerReceived = 350000000

\* a line item whose product is deleted or priced otherwise than resolved
Stale(items) ==
    \E i \in 1..Len(items) :
        \/ ~products[items[i].productCode].exists
        \/ products[items[i].productCode].price # items[i].priceWei

\* C19: value reaches the owner only in the one step that executes the
\* payment of a request, and then it is the whole total: every line item of
\* the request is in the payment, every product exists and the value is the
\* sum over them of catalog price x quantity; a request makes at most one
\* payment. When a product was deleted or its price differs from the
\* resolved one as the payment is sent, the request ends with an error and
\* the owner receives nothing (the buyer loses at most the gas).
C19_PurchaseAllOrNothing ==
    [][/\ ownerReceived' # ownerReceived
          => /\ buy.pc = "send"
             /\ "paid" \notin buy.ops
             /\ "paid" \in buy'.ops
             /\ Len(buy.normalizedProducts) = Len(buy.products)
             /\ \A i \in 1..Len(buy.normalizedProducts) :
                   /\ products[buy.normalizedProducts[i].productCode].exists
                   /\ buy.normalizedProducts[i].quantity = buy.products[i].quantity
             /\ ownerReceived' - ownerReceived = CatalogTotal(buy.normalizedProducts)
             /\ balance[buy.from] - balance'[buy.from]
                   >= CatalogTotal(buy.normalizedProducts)
       /\ (buy.pc = "send" /\ buy'.pc # "send" /\ Stale(buy.normalizedProducts))
          => /\ buy'.pc = "done"
             /\ buy'.res.status = 500
             /\ ownerReceived' = ownerReceived
             /\ balance[buy.from] - balance'[buy.from] < Min(Prices)
       /\ ownerReceived' = ownerReceived
          => \A w \in Wallets : balance[w] - balance'[w] < Min(Prices)]_vars

\* the payment was mined and reverted: a product of the request was deleted
\* or repriced after estimateGas
C19_Witness ==
    /\ buy.pc = "done"
    /\ buy.res.status = 500
    /\ "reverted" \in buy.ops
    /\ Len(buy.normalizedProducts) = 2
    /\ ownerReceived = 0
    /\ balance[buy.from] < BuyerFunds
    /\ balance[buy.from] > BuyerFunds - Min(Prices)

\* C20: once the payment of a request has gone through, the request ends
\* with the success response carrying the total, whether recordPurchase was
\* recorded, failed or was skipped; between the payment and the response
\* the request moves no value and sends no further payment.
C20_RecordFailureDoesNotFailPurchase ==
    [][/\ buy.pc = "record" => "paid" \in buy.ops
       /\ ("paid" \in buy.ops /\ buy.pc # "done" /\ buy' # buy)
          => /\ buy.pc = "record"
             /\ buy'.pc = "done"
             /\ buy'.res = BuyResponse(200, "Product(s) purchased successfully",
                                       buy.totalPriceWei)
             /\ buy'.ops \cap {"recorded", "recordFailed", "recordSkipped"} # {}
             /\ UNCHANGED <<ownerReceived, balance, nonce>>]_vars

\* recordPurchase was sent and failed; the response is the success
C20_Witness ==
    /\ buy.pc = "done"
    /\ buy.res.status = 200
    /\ {"paid", "recordSend", "recordFailed"} \subseteq buy.ops
    /\ LogTotal(UserCodes) = 0
    /\ ownerReceived = buy.res.totalPriceWei

(***************************************************************************)
(* Claims about the catalog of ProductContract, checked under              *)
(* SpecPurchase.                                                           *)
(***************************************************************************)
EverAdded == {productCodes[i] : i \in 1..Len(productCodes)}

Listed(code) ==
    \E i \in 1..Len(getAllProducts(ProductStorage)) :
        getAllProducts(ProductStorage)[i].productCode = code

\* C21: a product that was added and then deleted is not in the listing of
\* getAllProducts, and getProduct of its code still returns its code and its
\* price.
C21_DeletedProductStaysAddressable ==
    \A code \in EverAdded :
        ~products[code].exists
            => /\ ~Listed(code)
               /\ getProduct(ProductStorage, code).ok
               /\ getProduct(ProductStorage, code).productCode = code
               /\ getProduct(ProductStorage, code).price = products[code].price

\* C28: getAllProducts never lists a product code twice, and productCount
\* is the number of distinct product codes ever added.
C28_ListingHasNoDuplicates ==
    LET list == getAllProducts(ProductStorage)
    IN  /\ \A i, j \in 1..Len(list) :
              list[i].productCode = list[j].productCode => i = j
        /\ productCount = Cardinality(EverAdded)

(***************************************************************************)
(* Claims about the withdraw route's outcomes, checked under SpecServer.   *)
(***************************************************************************)
\* C25: a withdraw request whose fields are present and whose key parses,
\* for a userCode with no registered employee, ends with the not-found
\* response (404, "Employee not found") and has signed and sent nothing.
C25_UnknownEmployeeIsNotFound ==
    (/\ wd.pc = "done"
     /\ wd.from # ZeroAddress
     /\ ~getEmployee(Storage, wd.userCode).ok)
        => /\ wd.res.status = 404
           /\ wd.res.error = "Employee not found"
           /\ wd.ops = {}

(***************************************************************************)
(* Claims about broadcasting, checked under SpecBroadcast.                 *)
(***************************************************************************)
\* the step in which a request calls sendSignedTransaction
WdBroadcast == wd.pc = "send" /\ "send" \in wd'.ops
BuyBroadcast == buy.pc = "send" /\ "send" \in buy'.ops

\* C26: a withdraw request and a purchase request each call
\* sendSignedTransaction at most once; a broadcast that fails ends the request
\* in the same step with an error response, changes neither the chain nor
\* the ledger, and a request that has ended does nothing more; the ledger
\* and the nonces change only in steps of a request whose broadcast
\* succeeded or is being made.
C26_BroadcastIsNeverRetried ==
    [][/\ WdBroadcast => "send" \notin wd.ops
       /\ BuyBroadcast => "send" \notin buy.ops
       /\ (WdBroadcast /\ "transferred" \notin wd'.ops)
          => /\ wd'.pc = "done"
             /\ wd'.res.status = 500
             /\ UNCHANGED <<contractVars, balance, nonce, ownerReceived>>
       /\ (BuyBroadcast /\ "paid" \notin buy'.ops)
          => /\ buy'.pc = "done"
             /\ buy'.res.status = 500
             /\ UNCHANGED <<contractVars, ownerReceived>>
       /\ (wd.pc = "done" /\ wd' # wd) => wd'.ops = {}
       /\ (buy.pc = "done" /\ buy' # buy) => buy'.ops = {}
       /\ nonce' # nonce => WdBroadcast \/ BuyBroadcast
       /\ contractVars' # contractVars
          => \/ wd.pc = "record" /\ "transferred" \in wd.ops
             \/ buy.pc = "record" /\ "paid" \in buy.ops]_vars

\* a withdraw request and a purchase request have both ended on a failed
\* broadcast
C26_Witness ==
    /\ wd.pc = "done"
    /\ wd.res.status = 500
    /\ "send" \in wd.ops
    /\ "transferred" \notin wd.ops
    /\ buy.pc = "done"
    /\ buy.res.status = 500
    /\ "send" \in buy.ops
    /\ "paid" \notin buy.ops
    /\ nonce = [w \in Wallets |-> 0]

(***************************************************************************)
(* Claim about whose log a purchase is recorded in, checked under          *)
(* SpecPurchaseRecord.                                                     *)
(***************************************************************************)
\* C29: when a purchase request has appended its Purchase entry to the log
\* of its userCode, the payment was made from the wallet registered for
\* that userCode.
C29_PurchaseRecordedForPayingWallet ==
    (buy.pc = "done" /\ "recorded" \in buy.ops)
        => /\ Len(logs[trim(buy.userCode)]) > 0
           /\ buy.from = employees[trim(buy.userCode)].wallet

Settled(r) ==
    /\ scans[r].pc = "received"
    /\ \A k \in 1..Len(dbQueue) : dbQueue[k].req # r

\* C22: at most one request is inside the section in which a transaction
\* of the server's account is fetched a sequence number, signed and
\* broadcast.
C22_OwnerTransactionsMutuallyExclusive ==
    Cardinality({r \in DOMAIN scans : InOwnerSection(r)}) <= 1

\* C24: no two accruals that credited an employee took the same entry row of
\* that employee as their checkin.
C24_EntryCreditedAtMostOnce ==
    \A r1, r2 \in DOMAIN scans :
        (/\ scans[r1].credit = "credited"
         /\ scans[r2].credit = "credited"
         /\ scans[r1].userId = scans[r2].userId
         /\ scans[r1].entryId = scans[r2].entryId) => r1 = r2

\* C27: a request is answered at most once, and exactly once when the
\* handler has nothing more to run for it.
C27_ExactlyOneResponse ==
    \A r \in DOMAIN scans :
        /\ Len(scans[r].responses) <= 1
        /\ Settled(r) => Len(scans[r].responses) = 1

(***************************************************************************)
(* Claim about concurrent withdrawals, checked under SpecWithdrawPair.     *)
(***************************************************************************)
InFlight(i) == wds[i].pc \notin {"idle", "done"}

\* C23: two withdraw requests in flight for the same wallet have not both
\* signed a transfer with the same nonce, and are not both past the balance
\* check with their transfers unsent after reading the same nonce and
\* balance.
C23_WithdrawalsSerializedPerEmployee ==
    \A i, j \in Slots :
        (/\ i # j
         /\ InFlight(i)
         /\ InFlight(j)
         /\ wds[i].from = wds[j].from
         /\ wds[i].txCount = wds[j].txCount)
            => /\ ~("sign" \in wds[i].ops /\ "sign" \in wds[j].ops)
               /\ ~(wds[i].pc \in {"sign", "send"} /\ wds[j].pc \in {"sign", "send"})
====
